---- MODULE Spec2Model ----
(***************************************************************************)
(* Model of the agent execution engine of super-prompt:                    *)
(* ModernAIAgent.execute_task (planning, execution loop, validation), the  *)
(* model router and the tool dispatch with its blocking / repeat detection. *)
(* The LLM and the tool handlers are the environment: their replies and    *)
(* outcomes are drawn from small sets.                                     *)
(***************************************************************************)
EXTENDS Integers, Sequences, FiniteSets, TLC

\* ------------------------------------------------------------------------
\* Bounds of the exploration
\* ------------------------------------------------------------------------
\* the largest iteration cap an agent or a task is given
MaxIter == 2
\* the most tool calls the LLM issues during one task, over all its replies
MaxToolCalls == 3
\* the longest content handed to a file tool, in characters
MaxLen == 2
\* the last second of the wall clock
MaxClock == 1
\* the most commits the git tools make
MaxCommits == 1
\* words of a shell command
MaxWords == 4
\* stash entries of a repository
MaxStashes == 1
\* registrations made in one run
MaxRegistrations == 3

\* ------------------------------------------------------------------------
\* Program constants
\* ------------------------------------------------------------------------
MIN_ITERATIONS == 1
MAX_ITERATIONS == 1000

None == "None"

\* an optional integer argument: <<>> is None, <<n>> is the value n
NoInt == <<>>

COGNITIVE_TOOLS ==
    {"analyze_error", "replan_approach", "validate_result", "progress_checkpoint"}

\* the names registered in the dispatcher table (a representative of each
\* class: a plain simple tool, a simple tool that may have a model override,
\* a cognitive stub, a complex-tagged tool that is not a cognitive stub; the
\* file and shell tools whose handlers are modelled)
tools_registry ==
    {"list_files", "write_file", "analyze_error", "check_file_and_suggest_action",
     "read_file", "force_write_file", "update_file", "run_command", "run_script"}

tool_complexity ==
    [n \in tools_registry |->
        IF n \in {"analyze_error", "check_file_and_suggest_action"}
        THEN "complex" ELSE "simple"]

\* tool_complexity.get(tool_name, 'simple')
ToolComplexityGet(n) ==
    IF n \in DOMAIN tool_complexity THEN tool_complexity[n] ELSE "simple"

\* endpoints of the provider configuration
SimpleEndpoint == "M1"
ComplexEndpoint == "M2"

\* the tool_overrides tables an agent may be configured with
OverrideTables ==
    { [n \in {} |-> "M1"],
      [n \in {"write_file", "check_file_and_suggest_action"} |->
          IF n = "write_file" THEN "M3" ELSE "M4"] }

\* ------------------------------------------------------------------------
\* JSON argument strings: json.loads and json.dumps(sort_keys=True)
\* ------------------------------------------------------------------------
\* the argument strings that are JSON: two spellings of the same object and
\* a different object; every other string makes json.loads raise
ValidJson == {"{a:1,b:2}", "{b:2,a:1}", "{a:2,b:2}"}

IsJson(s) == s \in ValidJson

\* json.loads of a valid argument string
JsonLoads(s) ==
    CASE s = "{a:1,b:2}" -> [a |-> 1, b |-> 2]
      [] s = "{b:2,a:1}" -> [b |-> 2, a |-> 1]
      [] s = "{a:2,b:2}" -> [a |-> 2, b |-> 2]

\* json.dumps(tool_args, sort_keys=True): the members in key order
JsonDumpsSorted(d) == <<"a", d.a, "b", d.b>>

\* current_signature = f"{tool_name}:{json.dumps(tool_args, sort_keys=True)}"
Signature(name, args) == <<name, JsonDumpsSorted(args)>>

\* last_tool_calls_signature = None
NoSignature == <<None, <<"a", 0, "b", 0>>>>

\* ------------------------------------------------------------------------
\* State
\* ------------------------------------------------------------------------
VARIABLES
    use_multi_model,            \* self.use_multi_model
    self_max_iterations,        \* self.max_iterations
    tool_overrides,             \* config.model_provider_config.tool_overrides
    model_provider_config,      \* the ModelConfig of every endpoint
    model_clients,              \* self.model_clients: direct clients by model name
    pc,                         \* position inside execute_task
    max_iterations,             \* argument of execute_task (None when absent)
    skip_planning,              \* argument of execute_task
    skip_validation,            \* argument of execute_task
    task_max_iterations,        \* local of execute_task
    messages,                   \* the transcript
    iteration,
    previous_tool_calls,
    tool_calls,                 \* the tool calls of the current reply
    idx,                        \* position of the for loop over tool_calls
    last_tool_calls_signature,
    repeated_call_count,
    blocking_count,
    force_complex_model,
    actions_taken,
    execution_result,
    result,                     \* what execute_task returned
    raised,                     \* the exception that left execute_task
    llm_log,                    \* history: every LLM call of the task
    dispatch_log,               \* history: every tool call dispatched
    git_session_started,        \* self.git_session_started
    git_session_branch,         \* self.git_session_branch
    first_call_done,            \* history: execute_task was called before
    repo,                       \* the git repository of the workspace
    git_log,                    \* history: every git operation that ran
    fs,                         \* the files, by the path handed to the tools
    backups,                    \* the files of W/.code_agent_backups, by name
    clock,                      \* the wall clock, in seconds
    file_op,                    \* history: the latest file tool call
    shell_op,                   \* history: the latest shell tool call
    TOOL_REGISTRY,              \* tool_decorator.TOOL_REGISTRY: handler by name
    TOOL_SCHEMAS,               \* tool_decorator.TOOL_SCHEMAS: the schema list
    TOOL_COMPLEXITY             \* tool_decorator.TOOL_COMPLEXITY: tag by name

vars == <<use_multi_model, self_max_iterations, tool_overrides,
          model_provider_config, model_clients,
          pc, max_iterations, skip_planning, skip_validation,
          task_max_iterations, messages, iteration, previous_tool_calls,
          tool_calls, idx, last_tool_calls_signature, repeated_call_count,
          blocking_count, force_complex_model, actions_taken,
          execution_result, result, raised, llm_log, dispatch_log,
          git_session_started, git_session_branch, first_call_done,
          repo, git_log, fs, backups, clock, file_op, shell_op,
          TOOL_REGISTRY, TOOL_SCHEMAS, TOOL_COMPLEXITY>>

sessionVars == <<git_session_started, git_session_branch, first_call_done>>
gitVars == <<repo, git_log>>
fileVars == <<fs, backups, clock, file_op>>
shellVars == <<shell_op>>
registryVars == <<TOOL_REGISTRY, TOOL_SCHEMAS, TOOL_COMPLEXITY>>
configVars == <<use_multi_model, self_max_iterations, tool_overrides,
                model_provider_config, model_clients, registryVars>>
argVars == <<max_iterations, skip_planning, skip_validation, task_max_iterations>>
loopVars == <<pc, messages, iteration, previous_tool_calls, tool_calls, idx,
              last_tool_calls_signature, repeated_call_count, blocking_count,
              force_complex_model, actions_taken, execution_result, result,
              raised, llm_log, dispatch_log>>
agentVars == <<configVars, argVars, loopVars, sessionVars>>

\* ------------------------------------------------------------------------
\* Transcript entries
\* ------------------------------------------------------------------------
Msg(role, kind, calls, id, tool) ==
    [role |-> role, kind |-> kind, tool_calls |-> calls,
     tool_call_id |-> id, tool |-> tool]

SystemMsg(kind) == Msg("system", kind, <<>>, 0, "-")
UserMsg(kind, tool) == Msg("user", kind, <<>>, 0, tool)
AssistantMsg(kind, calls) == Msg("assistant", kind, calls, 0, "-")
ToolMsg(content, id) == Msg("tool", content, <<>>, id, "-")

NoResult == [n \in {} |-> 0]

Last(s) == s[Len(s)]

\* ------------------------------------------------------------------------
\* Model router
\* ------------------------------------------------------------------------
get_simple_model_config == SimpleEndpoint
get_complex_model_config == ComplexEndpoint

\* position of the first tool call whose name has an override
FirstOverride(calls) ==
    CHOOSE i \in 1..Len(calls) :
        /\ calls[i].name \in DOMAIN tool_overrides
        /\ \A j \in 1..(i - 1) : calls[j].name \notin DOMAIN tool_overrides

\* a variant that looks at the overrides before the cognitive tools
get_model_config_for_tools_OverridesFirst(calls) ==
    IF \E i \in 1..Len(calls) : calls[i].name \in DOMAIN tool_overrides
    THEN tool_overrides[calls[FirstOverride(calls)].name]
    ELSE IF \E i \in 1..Len(calls) : calls[i].name \in COGNITIVE_TOOLS
    THEN get_complex_model_config
    ELSE IF /\ use_multi_model
            /\ \E i \in 1..Len(calls) : ToolComplexityGet(calls[i].name) = "complex"
    THEN get_complex_model_config
    ELSE get_simple_model_config

get_model_config_for_tools(calls) ==
    IF \E i \in 1..Len(calls) : calls[i].name \in COGNITIVE_TOOLS
    THEN get_complex_model_config
    ELSE IF \E i \in 1..Len(calls) : calls[i].name \in DOMAIN tool_overrides
    THEN tool_overrides[calls[FirstOverride(calls)].name]
    ELSE IF /\ use_multi_model
            /\ \E i \in 1..Len(calls) : ToolComplexityGet(calls[i].name) = "complex"
    THEN get_complex_model_config
    ELSE get_simple_model_config

\* ------------------------------------------------------------------------
\* _setup_llm and _call_llm: the client a request goes through
\* ------------------------------------------------------------------------
\* ModelConfig(name, api_base, api_key); None is an absent base URL or key
ModelConfig(name, api_base, api_key) ==
    [name |-> name, api_base |-> api_base, api_key |-> api_key]

\* os.getenv("OPENAI_API_KEY") or "not-needed"
EnvironmentKey == "OPENAI_API_KEY"

\* OpenAIClient(base_url=model_cfg.api_base, api_key=api_key)
OpenAIClient(model_cfg) ==
    [base_url |-> model_cfg.api_base,
     api_key |-> IF model_cfg.api_key = None THEN EnvironmentKey ELSE model_cfg.api_key]

\* self.model_clients[model_cfg.name] = OpenAIClient(...)
WithClient(clients, model_cfg) ==
    [n \in DOMAIN clients \cup {model_cfg.name} |->
        IF n = model_cfg.name THEN OpenAIClient(model_cfg) ELSE clients[n]]

\* the loop over [simple, complex]: every endpoint with a base URL gets the
\* client of its name
RECURSIVE ClientsOf(_, _, _)
ClientsOf(clients, cfg, endpoints) ==
    IF endpoints = <<>> THEN clients
    ELSE ClientsOf(IF cfg[Head(endpoints)].api_base # None
                   THEN WithClient(clients, cfg[Head(endpoints)])
                   ELSE clients,
                   cfg, Tail(endpoints))

\* the loop over tool_overrides.items(): an override with a base URL gets a
\* client unless its name has one
RECURSIVE OverrideClientsOf(_, _, _)
OverrideClientsOf(clients, cfg, endpoints) ==
    IF endpoints = <<>> THEN clients
    ELSE OverrideClientsOf(IF /\ cfg[Head(endpoints)].api_base # None
                              /\ cfg[Head(endpoints)].name \notin DOMAIN clients
                           THEN WithClient(clients, cfg[Head(endpoints)])
                           ELSE clients,
                           cfg, Tail(endpoints))

\* the endpoints of an override table, in the order of its items
OverrideItems(overrides) ==
    IF DOMAIN overrides = {} THEN <<>>
    ELSE <<overrides["write_file"], overrides["check_file_and_suggest_action"]>>

\* self.model_clients after _setup_llm
setup_llm(cfg, overrides) ==
    OverrideClientsOf(ClientsOf([n \in {} |-> None], cfg, <<SimpleEndpoint, ComplexEndpoint>>),
                      cfg, OverrideItems(overrides))

\* where the request of a call with model_config goes: the direct client
\* registered under the model name, or litellm.completion with the base URL
\* and the key of model_config
call_llm(model_config) ==
    LET model_cfg == model_provider_config[model_config]
        model_name == model_cfg.name
    IN  IF model_name \in DOMAIN model_clients
        THEN [via |-> "client", model |-> model_name,
              base_url |-> model_clients[model_name].base_url,
              api_key |-> model_clients[model_name].api_key]
        ELSE [via |-> "litellm", model |-> model_name,
              base_url |-> model_cfg.api_base, api_key |-> model_cfg.api_key]

\* the endpoint of an execution-loop turn
SelectModel ==
    IF force_complex_model THEN get_complex_model_config
    ELSE get_model_config_for_tools(previous_tool_calls)

\* ------------------------------------------------------------------------
\* execute_task: entry
\* ------------------------------------------------------------------------
\* a variant that ignores the per-task argument
EffectiveMaxIterations_ConfigOnly(arg) == self_max_iterations

\* task_max_iterations = max_iterations if max_iterations is not None
\*                       else self.max_iterations
EffectiveMaxIterations(arg) ==
    IF arg # NoInt THEN arg[1] ELSE self_max_iterations

InitialExecutionResult == [success |-> FALSE, response |-> "Nenhuma resposta"]

ResetLocals ==
    /\ iteration' = 0
    /\ previous_tool_calls' = <<>>
    /\ tool_calls' = <<>>
    /\ idx' = 0
    /\ last_tool_calls_signature' = NoSignature
    /\ repeated_call_count' = 0
    /\ blocking_count' = 0
    /\ force_complex_model' = FALSE
    /\ actions_taken' = <<>>
    /\ execution_result' = InitialExecutionResult
    /\ result' = NoResult
    /\ llm_log' = <<>>
    /\ dispatch_log' = <<>>

\* ------------------------------------------------------------------------
\* The git repository of the workspace (tools/git_tools.py)
\* ------------------------------------------------------------------------
\* the branch names that occur: the base branch, a session branch left by an
\* earlier run, and the one git_session_start makes up from the clock and the
\* task description
BaseBranch == "main"
OldSessionBranch == "session/0"
NewSessionBranch == "session/1"
BranchNames == {BaseBranch, OldSessionBranch, NewSessionBranch}

\* current_branch.startswith("session/")
IsSessionBranch(b) == b \in {OldSessionBranch, NewSessionBranch}

\* the commit no branch points at: the tip of a branch that does not exist
NoCommit == <<>>

\* a repository: whether the workspace is one, the branch HEAD is on, whether
\* the working tree has uncommitted changes, the branches and their tips
\* (a commit is <<n>>, n its rank among the commits ever made), the
\* number of commits ever made, and the number of entries of the stash,
\* which is empty at first
Repo(is_repo, head, dirty, branches, tip, commits) ==
    [is_repo |-> is_repo, head |-> head, dirty |-> dirty,
     branches |-> branches, tip |-> tip, commits |-> commits, stashes |-> 0]

\* _run_git: success = result.returncode == 0 if check else True
run_git(check, returncode_zero) == IF check THEN returncode_zero ELSE TRUE

\* _is_git_repo: rev-parse run with check=False
is_git_repo(r) == run_git(FALSE, r.is_repo)

\* _has_changes: status --porcelain has output
has_changes(r) == IF run_git(TRUE, r.is_repo) THEN r.dirty ELSE FALSE

\* _get_current_branch
get_current_branch(r) == IF run_git(TRUE, r.is_repo) THEN r.head ELSE "unknown"

\* git checkout -b name: fails outside a repository and when the branch
\* exists; the working tree is carried over
CheckoutNewBranch(r, name) ==
    IF r.is_repo /\ name \notin r.branches
    THEN [r EXCEPT !.head = name,
                   !.branches = @ \cup {name},
                   !.tip = [@ EXCEPT ![name] = r.tip[r.head]]]
    ELSE r

\* git init; git add -A; git commit
GitInit(r) ==
    Repo(TRUE, BaseBranch, FALSE, {BaseBranch},
         [b \in BranchNames |-> IF b = BaseBranch THEN <<r.commits + 1>> ELSE NoCommit],
         r.commits + 1)

\* git_session_start(description, workspace): the repository it leaves
git_session_start(r, branch_name) ==
    LET r1 == IF ~is_git_repo(r) THEN GitInit(r) ELSE r
    IN  IF has_changes(r1)
        THEN r1
        ELSE CheckoutNewBranch(r1, branch_name)

\* git add -A; git commit: fails when there is nothing to commit
Commit(r) ==
    IF r.is_repo /\ r.dirty
    THEN [r EXCEPT !.commits = @ + 1,
                   !.tip = [@ EXCEPT ![r.head] = <<r.commits + 1>>],
                   !.dirty = FALSE]
    ELSE r

\* the checkpoint argument of a tool: absent (None), the boolean True, or a
\* string, which may be empty
NoCheckpoint == [kind |-> "none", text |-> <<>>]
TrueCheckpoint == [kind |-> "true", text |-> <<>>]
TextCheckpoint(text) == [kind |-> "str", text |-> text]

\* the truth value of checkpoint: None and the empty string are false
Truth(checkpoint) ==
    \/ checkpoint.kind = "true"
    \/ checkpoint.kind = "str" /\ checkpoint.text # <<>>

\* message: f"auto-checkpoint: {operation} {filepath}" if checkpoint is True
\* or checkpoint == "", else str(checkpoint)
AutoMessage(operation, filepath) == <<"auto-checkpoint:", operation, filepath>>
checkpoint_message(checkpoint, operation, filepath) ==
    IF checkpoint.kind = "true" \/ (checkpoint.kind = "str" /\ checkpoint.text = <<>>)
    THEN AutoMessage(operation, filepath)
    ELSE checkpoint.text

\* create_checkpoint_if_requested(workspace, checkpoint, operation, filepath):
\* the repository it leaves
create_checkpoint_if_requested(r, checkpoint) ==
    IF ~Truth(checkpoint) THEN r
    ELSE IF ~is_git_repo(r) THEN r
    ELSE Commit(r)

\* an entry of git_log: the operation and the repository before and after
GitEntry(op, before, after) == [op |-> op, before |-> before, after |-> after]

\* ------------------------------------------------------------------------
\* _ensure_git_session
\* ------------------------------------------------------------------------
\* if not self.git_session_started
NeedsGitSession_Always == TRUE
NeedsGitSession == ~git_session_started

EnsureGitSession ==
    IF ~NeedsGitSession
    THEN UNCHANGED <<git_session_started, git_session_branch, repo, git_log>>
    ELSE IF ~is_git_repo(repo)
    THEN /\ git_session_started' = TRUE
         /\ UNCHANGED <<git_session_branch, repo, git_log>>
    ELSE IF IsSessionBranch(get_current_branch(repo))
    THEN /\ git_session_branch' = get_current_branch(repo)
         /\ git_session_started' = TRUE
         /\ UNCHANGED <<repo, git_log>>
    ELSE /\ repo' = git_session_start(repo, NewSessionBranch)
         /\ git_log' = Append(git_log, GitEntry("session_start", repo, repo'))
         /\ git_session_branch' = get_current_branch(repo')
         /\ git_session_started' = TRUE

UnplannedTranscript == <<SystemMsg("system_prompt"), UserMsg("task", "-")>>

\* messages of _phase_planning when the call is made
PlanningRequest == <<SystemMsg("planning_prompt"), UserMsg("task", "-")>>

\* messages of _phase_validation
ValidationRequest == <<SystemMsg("validator"), UserMsg("validation_prompt", "-")>>

ExecuteTask(arg, sp, sv) ==
    /\ pc \in {"idle", "returned", "raised"}
    /\ max_iterations' = arg
    /\ skip_planning' = sp
    /\ skip_validation' = sv
    /\ task_max_iterations' = EffectiveMaxIterations(arg)
    /\ ResetLocals
    /\ IF \/ EffectiveMaxIterations(arg) < MIN_ITERATIONS
          \/ EffectiveMaxIterations(arg) > MAX_ITERATIONS
       THEN /\ pc' = "raised"
            /\ raised' = "ValueError"
            /\ messages' = <<>>
            /\ UNCHANGED <<git_session_started, git_session_branch, repo, git_log>>
       ELSE /\ raised' = None
            /\ IF NeedsGitSession
               THEN EnsureGitSession
               ELSE UNCHANGED <<git_session_started, git_session_branch, repo, git_log>>
            /\ IF use_multi_model /\ ~sp
               THEN /\ pc' = "planning"
                    /\ messages' = <<>>
               ELSE /\ pc' = "loop"
                    /\ messages' = UnplannedTranscript
    /\ first_call_done' = TRUE
    /\ UNCHANGED <<configVars, fileVars, shellVars>>

\* ------------------------------------------------------------------------
\* _phase_planning
\* ------------------------------------------------------------------------
\* an entry of llm_log: the phase, the endpoint, whether the tool schema was
\* sent, the turn, whether force_complex_model was set, and what came back
\* ("reply" or "raise")
LlmCall(phase, model, tools, it, forced, outcome) ==
    [phase |-> phase, model |-> model, tools |-> tools, iteration |-> it,
     forced |-> forced, outcome |-> outcome,
     client |-> call_llm(model),
     transcript |-> CASE phase = "planning" -> PlanningRequest
                      [] phase = "validation" -> ValidationRequest
                      [] OTHER -> messages]

\* a variant that stops at the plan
PlannedTranscript_PlanOnly ==
    <<SystemMsg("planning_prompt"), UserMsg("task", "-"), AssistantMsg("plan", <<>>)>>

\* messages of _phase_planning after the plan and the instruction to execute it
PlannedTranscript ==
    <<SystemMsg("planning_prompt"), UserMsg("task", "-"),
      AssistantMsg("plan", <<>>), UserMsg("execute_plan", "-")>>

\* outcome: "fail" (the call raises), "plan" (a plan came back), "empty"
\* (the reply has no content)
PhasePlanning(outcome) ==
    /\ pc = "planning"
    /\ llm_log' = Append(llm_log, LlmCall("planning", get_complex_model_config, FALSE, 0, FALSE,
                                 IF outcome = "fail" THEN "raise" ELSE "reply"))
    /\ messages' = IF outcome = "fail" THEN UnplannedTranscript ELSE PlannedTranscript
    /\ actions_taken' = IF outcome = "plan" THEN <<"[PLANEJAMENTO]">> ELSE actions_taken
    /\ pc' = "loop"
    /\ UNCHANGED <<configVars, argVars, sessionVars, gitVars, fileVars, shellVars, iteration, previous_tool_calls,
                   tool_calls, idx, last_tool_calls_signature, repeated_call_count,
                   blocking_count, force_complex_model, execution_result, result,
                   raised, dispatch_log>>


\* ------------------------------------------------------------------------
\* execute_task: leaving the loop, validation and return
\* ------------------------------------------------------------------------
\* while iteration < task_max_iterations
LoopGuard == iteration < task_max_iterations

\* return {"success": False, "response": f"Erro ao chamar LLM: {e}"}
TransportErrorResult == [success |-> FALSE, response |-> "Erro ao chamar LLM"]

\* return {**execution_result, "actions_count": ..., "iterations": ...}
PlainResult(er, it) ==
    [success |-> er.success, response |-> er.response,
     actions_count |-> Len(actions_taken), iterations |-> it]

\* final_result of the validated path
ValidatedResult(er, vr, it) ==
    LET final_result ==
            [success |-> er.success /\ vr.validated, response |-> er.response,
             validation |-> vr, actions_count |-> Len(actions_taken),
             iterations |-> it]
    IN  IF git_session_started /\ is_git_repo(repo)
        THEN [success |-> final_result.success, response |-> final_result.response,
              validation |-> final_result.validation,
              actions_count |-> final_result.actions_count,
              iterations |-> final_result.iterations,
              git_review |-> "git_session_end"]
        ELSE final_result

\* a variant that validates whatever the loop left
RunsValidation_AnyResult(er) == use_multi_model /\ ~skip_validation

\* if self.use_multi_model and not skip_validation and execution_result.get("success")
RunsValidation(er) == use_multi_model /\ ~skip_validation /\ er.success

\* the code after the loop, for the execution result er reached at turn it
AfterLoop(er, it) ==
    /\ execution_result' = er
    /\ IF RunsValidation(er)
       THEN /\ pc' = "validation"
            /\ result' = result
       ELSE /\ pc' = "returned"
            /\ result' = PlainResult(er, it)

\* the else branch of the while loop: the iteration limit was reached
IterationLimit ==
    /\ pc = "loop"
    /\ ~LoopGuard
    /\ AfterLoop([success |-> FALSE, response |-> "Limite de iteracoes atingido"],
                 iteration)
    /\ UNCHANGED <<configVars, argVars, sessionVars, gitVars, fileVars, shellVars, messages, iteration,
                   previous_tool_calls, tool_calls, idx, last_tool_calls_signature,
                   repeated_call_count, blocking_count, force_complex_model,
                   actions_taken, raised, llm_log, dispatch_log>>

\* the verdict words found in a validator reply
ValidationReplies == {{"SIM"}, {"NAO"}, {"PARCIAL"}, {"SIM", "NAO"}}

\* validated / needs_retry as parsed from the reply
ParseValidation(content) ==
    [validated |-> ("SIM" \in content) /\ ("NAO" \notin content),
     assessment |-> content,
     needs_retry |-> ("NAO" \in content) \/ ("PARCIAL" \in content)]

ValidationErrorResult ==
    [validated |-> TRUE, assessment |-> {"erro"}, needs_retry |-> FALSE]

\* _phase_validation and the return of the validated path; reply is a member
\* of ValidationReplies or "fail" when the call raises
PhaseValidation(reply) ==
    /\ pc = "validation"
    /\ llm_log' = Append(llm_log,
                         LlmCall("validation", get_complex_model_config, FALSE,
                                 iteration, FALSE,
                                 IF reply = {"fail"} THEN "raise" ELSE "reply"))
    /\ result' = ValidatedResult(execution_result,
                                 IF reply = {"fail"} THEN ValidationErrorResult
                                 ELSE ParseValidation(reply),
                                 iteration)
    /\ pc' = "returned"
    /\ UNCHANGED <<configVars, argVars, sessionVars, gitVars, fileVars, shellVars, messages, iteration,
                   previous_tool_calls, tool_calls, idx, last_tool_calls_signature,
                   repeated_call_count, blocking_count, force_complex_model,
                   actions_taken, execution_result, raised, dispatch_log>>

\* ------------------------------------------------------------------------
\* execute_task: one turn of the execution loop, up to the reply
\* ------------------------------------------------------------------------
\* the identifier the LLM gives to the j-th tool call of a reply: one that no
\* earlier call of the transcript has
CallId(j) == Len(dispatch_log) + j

ToolCall(id, name, arguments) == [id |-> id, name |-> name, arguments |-> arguments]

\* the tool-call lists a reply may carry; Vocab is the set of
\* <<name, argument string>> pairs the LLM chooses from
ToolCallLists(Vocab) ==
    UNION { { [j \in 1..n |-> ToolCall(CallId(j), c[j][1], c[j][2])] :
                c \in [1..n -> Vocab] } :
            n \in 1..(MaxToolCalls - Len(dispatch_log)) }

\* the LLM call of the turn that starts now
ExecutionCall(outcome) ==
    LlmCall("execution", SelectModel, TRUE, iteration + 1, force_complex_model, outcome)

\* a variant that goes on to the next turn after a transport error
LlmRaises_Retry ==
    /\ pc = "loop"
    /\ LoopGuard
    /\ iteration' = iteration + 1
    /\ llm_log' = Append(llm_log, ExecutionCall("raise"))
    /\ force_complex_model' = FALSE
    /\ pc' = "loop"
    /\ UNCHANGED <<configVars, argVars, sessionVars, gitVars, fileVars, shellVars, messages, previous_tool_calls,
                   tool_calls, idx, last_tool_calls_signature, repeated_call_count,
                   blocking_count, actions_taken, execution_result, result, raised,
                   dispatch_log>>

\* the call raised
LlmRaises ==
    /\ pc = "loop"
    /\ LoopGuard
    /\ iteration' = iteration + 1
    /\ llm_log' = Append(llm_log, ExecutionCall("raise"))
    /\ force_complex_model' = FALSE
    /\ result' = TransportErrorResult
    /\ pc' = "returned"
    /\ UNCHANGED <<configVars, argVars, sessionVars, gitVars, fileVars, shellVars, messages, previous_tool_calls,
                   tool_calls, idx, last_tool_calls_signature, repeated_call_count,
                   blocking_count, actions_taken, execution_result, raised,
                   dispatch_log>>

\* the reply carries no tool call: final answer
LlmFinalAnswer ==
    /\ pc = "loop"
    /\ LoopGuard
    /\ iteration' = iteration + 1
    /\ llm_log' = Append(llm_log, ExecutionCall("reply"))
    /\ force_complex_model' = FALSE
    /\ messages' = Append(messages, AssistantMsg("reply", <<>>))
    /\ AfterLoop([success |-> TRUE, response |-> "content"], iteration + 1)
    /\ UNCHANGED <<configVars, argVars, sessionVars, gitVars, fileVars, shellVars, previous_tool_calls,
                   tool_calls, idx, last_tool_calls_signature, repeated_call_count,
                   blocking_count, actions_taken, raised, dispatch_log>>

\* the reply carries the tool calls calls
LlmToolCalls(calls) ==
    /\ pc = "loop"
    /\ LoopGuard
    /\ iteration' = iteration + 1
    /\ llm_log' = Append(llm_log, ExecutionCall("reply"))
    /\ force_complex_model' = FALSE
    /\ messages' = Append(messages, AssistantMsg("reply", calls))
    /\ previous_tool_calls' = calls
    /\ tool_calls' = calls
    /\ idx' = 1
    /\ pc' = "tools"
    /\ UNCHANGED <<configVars, argVars, sessionVars, gitVars, fileVars, shellVars, last_tool_calls_signature,
                   repeated_call_count, blocking_count, actions_taken,
                   execution_result, result, raised, dispatch_log>>


\* ------------------------------------------------------------------------
\* execute_task: dispatch of one tool call of the reply
\* ------------------------------------------------------------------------
\* what a registered handler may do: return a plain result ("ok"), return a
\* result that contains one of the blocking patterns ("blocked"), raise
\* ("raise")
\* tool_result of the try / except around the handler call
ToolResult(name, outcome) ==
    IF name \notin tools_registry THEN "notfound"
    ELSE CASE outcome = "ok" -> "ok"
           [] outcome = "blocked" -> "blocked"
           [] outcome = "raise" -> "error"

\* any(pattern in tool_result for pattern in blocking_patterns)
IsBlockingResult(content) == content = "blocked"

\* a variant that binds the result to the position of the call in its turn
ToolCallIdOf_Position(tc) == idx

\* the tool_call_id written into the tool-result turn
ToolCallIdOf(tc) == tc.id

\* repeated_call_count after the comparison with the last signature
RepeatCount(sig) ==
    IF sig = last_tool_calls_signature THEN repeated_call_count + 1 ELSE 0

\* if is_blocking_result or repeated_call_count >= 1
TriggersReplan(content, sig) == IsBlockingResult(content) \/ RepeatCount(sig) >= 1

\* last_tool_calls_signature after a call that injected the replan
SignatureAfterReplan(sig) == NoSignature

\* an entry of dispatch_log
DispatchEntry(tc, sig, invoked, content, replan) ==
    [id |-> tc.id, name |-> tc.name, arguments |-> tc.arguments,
     signature |-> sig, invoked |-> invoked,
     content |-> content, replan |-> replan, iteration |-> iteration,
     position |-> idx]

\* a variant that walks the tool calls from the last to the first
CurrentToolCall_Reversed == tool_calls[Len(tool_calls) - idx + 1]

\* the tool call the for loop is at
CurrentToolCall == tool_calls[idx]

\* json.loads raises on the argument string: the exception leaves execute_task
DispatchMalformed ==
    /\ pc = "tools"
    /\ ~IsJson(CurrentToolCall.arguments)
    /\ pc' = "raised"
    /\ raised' = "JSONDecodeError"
    /\ dispatch_log' = Append(dispatch_log,
           DispatchEntry(CurrentToolCall, NoSignature, FALSE, "none", FALSE))
    /\ UNCHANGED <<configVars, argVars, sessionVars, gitVars, fileVars, shellVars, messages, iteration,
                   previous_tool_calls, tool_calls, idx, last_tool_calls_signature,
                   repeated_call_count, blocking_count, force_complex_model,
                   actions_taken, execution_result, result, llm_log>>

\* the body of the for loop after the handler returned tool_result: the
\* tool-result turn, the scan for a block or a repetition, the replan
Dispatched(tool_result) ==
    /\ LET tc == CurrentToolCall
           tool_args == JsonLoads(tc.arguments)
           sig == Signature(tc.name, tool_args)
           replan == TriggersReplan(tool_result, sig)
           toolMsg == ToolMsg(tool_result, ToolCallIdOf(tc))
       IN  /\ actions_taken' = Append(actions_taken, tc.name)
           /\ messages' = IF replan
                          THEN messages \o <<toolMsg, UserMsg("replan", tc.name)>>
                          ELSE Append(messages, toolMsg)
           /\ force_complex_model' = (replan \/ force_complex_model)
           /\ blocking_count' = IF replan THEN blocking_count + 1 ELSE 0
           /\ repeated_call_count' = IF replan THEN 0 ELSE RepeatCount(sig)
           /\ last_tool_calls_signature' =
                  IF replan THEN SignatureAfterReplan(sig) ELSE sig
           /\ dispatch_log' = Append(dispatch_log,
                  DispatchEntry(tc, sig, tc.name \in tools_registry, tool_result, replan))
    /\ IF idx < Len(tool_calls)
       THEN /\ idx' = idx + 1
            /\ pc' = "tools"
       ELSE /\ idx' = 0
            /\ pc' = "loop"
    /\ UNCHANGED <<configVars, argVars, sessionVars, iteration, previous_tool_calls,
                   tool_calls, execution_result, result, raised, llm_log>>

\* one pass of the for loop over tool_calls, the handler leaving the
\* workspace as it is
DispatchToolCall(outcome) ==
    /\ pc = "tools"
    /\ IsJson(CurrentToolCall.arguments)
    /\ Dispatched(ToolResult(CurrentToolCall.name, outcome))
    /\ UNCHANGED <<gitVars, fileVars, shellVars>>

\* ------------------------------------------------------------------------
\* Text: a string is the sequence of its characters
\* ------------------------------------------------------------------------
NL == "\n"

\* str.isspace for the characters that occur
IsSpace(c) == c \in {" ", NL}

RECURSIVE LStrip(_)
LStrip(s) == IF s = <<>> \/ ~IsSpace(Head(s)) THEN s ELSE LStrip(Tail(s))

RECURSIVE RStrip(_)
RStrip(s) ==
    IF s = <<>> \/ ~IsSpace(s[Len(s)]) THEN s ELSE RStrip(SubSeq(s, 1, Len(s) - 1))

\* str.strip()
Strip(s) == RStrip(LStrip(s))

\* str.startswith / str.endswith
StartsWith(s, prefix) ==
    Len(prefix) <= Len(s) /\ SubSeq(s, 1, Len(prefix)) = prefix
EndsWith(s, c) == s # <<>> /\ s[Len(s)] = c

\* the position of the first line end of s, 0 when there is none
FirstNL(s) ==
    IF \E i \in 1..Len(s) : s[i] = NL
    THEN CHOOSE i \in 1..Len(s) : s[i] = NL /\ \A j \in 1..(i - 1) : s[j] # NL
    ELSE 0

\* str.splitlines(keepends=True) and file.readlines()
RECURSIVE SplitLines(_)
SplitLines(s) ==
    IF s = <<>> THEN <<>>
    ELSE IF FirstNL(s) = 0 THEN <<s>>
    ELSE <<SubSeq(s, 1, FirstNL(s))>> \o SplitLines(SubSeq(s, FirstNL(s) + 1, Len(s)))

\* "".join(lines) and file.writelines(lines)
RECURSIVE JoinLines(_)
JoinLines(lines) ==
    IF lines = <<>> THEN <<>> ELSE Head(lines) \o JoinLines(Tail(lines))

\* the strings over alphabet of length n, and of length at most n
RECURSIVE StringsOfLen(_, _)
StringsOfLen(alphabet, n) ==
    IF n = 0 THEN {<<>>}
    ELSE {Append(s, c) : s \in StringsOfLen(alphabet, n - 1), c \in alphabet}
StringsUpTo(alphabet, n) == UNION {StringsOfLen(alphabet, k) : k \in 0..n}

\* ------------------------------------------------------------------------
\* The files of the workspace and CodeAgent (code_agent.py)
\* ------------------------------------------------------------------------
\* a path is the sequence of its components; workspace / filepath puts it
\* under W unless it is absolute or climbs out with ".."
BACKUP_DIR == ".code_agent_backups"
ResolvesOutside(filepath) == Head(filepath) \in {"/", ".."}
ResolvesIntoBackups(filepath) == Head(filepath) = BACKUP_DIR

\* file_path.name
Basename(filepath) == filepath[Len(filepath)]

\* file_path.exists()
Exists(filepath) == filepath \in DOMAIN fs

\* a directory with one more file, or with a file replaced
Put(dir, name, content) ==
    [n \in DOMAIN dir \cup {name} |-> IF n = name THEN content ELSE dir[n]]

\* backup_name = f"{file_path.name}.{timestamp}.backup", the timestamp to the
\* second
BackupName(filepath) == <<Basename(filepath), clock>>

\* create_backup: shutil.copy2(file_path, backup_path)
create_backup(filepath) == Put(backups, BackupName(filepath), fs[filepath])

\* what file_op keeps of a call: the tool, its arguments, whether the file
\* existed and what it held, the kind of result, the backups the call wrote
\* and those of them that were there before
FileOp(tool, filepath, content, res, made) ==
    [tool |-> tool, path |-> filepath, content |-> content,
     existed |-> Exists(filepath),
     before |-> IF Exists(filepath) THEN fs[filepath] ELSE <<>>,
     result |-> res, made |-> made, replaced |-> made \cap DOMAIN backups]

\* a file written under W is an uncommitted change of the working tree
WorkspaceTouched ==
    repo' = IF fs' # fs \/ backups' # backups THEN [repo EXCEPT !.dirty = TRUE] ELSE repo

NoFileOp ==
    [tool |-> "none", path |-> <<>>, content |-> <<>>, existed |-> FALSE,
     before |-> <<>>, result |-> "none", made |-> {}, replaced |-> {}]

\* ------------------------------------------------------------------------
\* tools/file_system.py: write_file
\* ------------------------------------------------------------------------
\* new_clean.startswith(existing_clean) and len(new_clean) > len(existing_clean)
IsExtension(existing_content, content) ==
    /\ StartsWith(Strip(content), Strip(existing_content))
    /\ Len(Strip(content)) > Len(Strip(existing_content))

\* additional_content = new_clean[len(existing_clean):].strip()
AdditionalContent(existing_content, content) ==
    Strip(SubSeq(Strip(content), Len(Strip(existing_content)) + 1,
                 Len(Strip(content))))

\* what the append of case 1 leaves in the file
Adapted(existing_content, content) ==
    LET additional_content == AdditionalContent(existing_content, content)
    IN  existing_content
        \o (IF ~EndsWith(existing_content, NL) THEN <<NL>> ELSE <<>>)
        \o additional_content
        \o (IF ~EndsWith(additional_content, NL) THEN <<NL>> ELSE <<>>)

\* if existing_text == new_text
IsIdentical(existing_content, content) == Strip(existing_content) = Strip(content)

\* the elements of a list
Range(seq) == {seq[i] : i \in DOMAIN seq}

\* diff_lines <= 3 and total_lines > 5
IsSmallChange(existing_content, content) ==
    LET existing_lines == SplitLines(existing_content)
        new_lines == SplitLines(content)
        existing_set == Range(existing_lines)
        new_set == Range(new_lines)
        diff_lines == Cardinality((new_set \ existing_set) \cup (existing_set \ new_set))
        total_lines == IF Len(existing_lines) > Len(new_lines)
                       THEN Len(existing_lines) ELSE Len(new_lines)
    IN  diff_lines <= 3 /\ total_lines > 5

\* write_file(filepath, content): what the handler does to the workspace
write_file(filepath, content) ==
    /\ IF ~Exists(filepath)
       THEN /\ fs' = Put(fs, filepath, content)
            /\ backups' = backups
            /\ file_op' = FileOp("write_file", filepath, content, "created", {})
       ELSE IF /\ IsExtension(fs[filepath], content)
               /\ AdditionalContent(fs[filepath], content) # <<>>
       THEN /\ backups' = create_backup(filepath)
            /\ fs' = Put(fs, filepath, Adapted(fs[filepath], content))
            /\ file_op' = FileOp("write_file", filepath, content, "adapted",
                                 {BackupName(filepath)})
       ELSE /\ UNCHANGED <<fs, backups>>
            /\ file_op' = FileOp("write_file", filepath, content,
                                 IF IsIdentical(fs[filepath], content) THEN "unchanged"
                                 ELSE IF IsSmallChange(fs[filepath], content)
                                 THEN "blocked_similar"
                                 ELSE "blocked_different",
                                 {})
    /\ WorkspaceTouched

\* the tool write_file called on its own
WriteFile(filepath, content) ==
    /\ write_file(filepath, content)
    /\ UNCHANGED <<agentVars, shellVars, git_log, clock>>

\* CodeAgent.write_file(filepath, content, show_preview=False) on the files f
\* and the backups b: a file that exists is backed up, then written
code_agent_write_file(f, b, filepath, content) ==
    [fs |-> Put(f, filepath, content),
     backups |-> IF filepath \in DOMAIN f
                 THEN Put(b, BackupName(filepath), f[filepath])
                 ELSE b]

\* ------------------------------------------------------------------------
\* tools/file_system.py: force_write_file, update_file
\* ------------------------------------------------------------------------
\* force_write_file(filepath, content, reason)
force_write_file(filepath, content) ==
    /\ IF ~Exists(filepath)
       THEN /\ UNCHANGED <<fs, backups>>
            /\ file_op' = FileOp("force_write_file", filepath, content, "missing", {})
       ELSE LET written == code_agent_write_file(fs, create_backup(filepath),
                                                 filepath, content)
            IN  /\ fs' = written.fs
                /\ backups' = written.backups
                /\ file_op' = FileOp("force_write_file", filepath, content,
                                     "overwritten", {BackupName(filepath)})
    /\ WorkspaceTouched

\* the tool force_write_file called on its own
ForceWriteFile(filepath, content) ==
    /\ force_write_file(filepath, content)
    /\ UNCHANGED <<agentVars, shellVars, git_log, clock>>

\* update_file(filepath, new_content, reason)
update_file(filepath, new_content) ==
    /\ IF ~Exists(filepath)
       THEN /\ UNCHANGED <<fs, backups>>
            /\ file_op' = FileOp("update_file", filepath, new_content, "missing", {})
       ELSE IF Strip(fs[filepath]) = Strip(new_content)
       THEN /\ UNCHANGED <<fs, backups>>
            /\ file_op' = FileOp("update_file", filepath, new_content, "unchanged", {})
       ELSE LET written == code_agent_write_file(fs, create_backup(filepath),
                                                 filepath, new_content)
            IN  /\ fs' = written.fs
                /\ backups' = written.backups
                /\ file_op' = FileOp("update_file", filepath, new_content,
                                     "updated", {BackupName(filepath)})
    /\ WorkspaceTouched

\* the tool update_file called on its own
UpdateFile(filepath, new_content) ==
    /\ update_file(filepath, new_content)
    /\ UNCHANGED <<agentVars, shellVars, git_log, clock>>

\* ------------------------------------------------------------------------
\* tools/file_system.py: ensure_lines
\* ------------------------------------------------------------------------
\* [line.strip() for line in text.splitlines() if line.strip()]
RECURSIVE StrippedOf(_)
StrippedOf(lines) ==
    IF lines = <<>> THEN <<>>
    ELSE (IF Strip(Head(lines)) = <<>> THEN <<>> ELSE <<Strip(Head(lines))>>)
             \o StrippedOf(Tail(lines))
StrippedLines(text) == StrippedOf(SplitLines(text))

\* set(...) of the lines of a sequence
LineSet(lines) == { lines[i] : i \in DOMAIN lines }

\* a variant that adds every input line, present or not
LinesToAdd_All(existing_content, lines_to_ensure) == StrippedLines(lines_to_ensure)

\* lines_to_add: the input lines that are not in the file, in their order
LinesToAdd(existing_content, lines_to_ensure) ==
    LET existing_lines_set == LineSet(StrippedLines(existing_content))
        Missing(line) == line \notin existing_lines_set
    IN  SelectSeq(StrippedLines(lines_to_ensure), Missing)

\* what the append writes: a line end if the file has none at its end, then
\* each line with its line end
RECURSIVE Terminated(_)
Terminated(lines) ==
    IF lines = <<>> THEN <<>> ELSE Head(lines) \o <<NL>> \o Terminated(Tail(lines))
EnsuredContent(existing_content, lines_to_add) ==
    existing_content
        \o (IF EndsWith(existing_content, NL) THEN <<>> ELSE <<NL>>)
        \o Terminated(lines_to_add)

\* ensure_lines(filepath, lines_to_ensure, reason)
ensure_lines(filepath, lines_to_ensure) ==
    /\ IF ~Exists(filepath)
       THEN LET written == code_agent_write_file(fs, backups, filepath, lines_to_ensure)
            IN  /\ fs' = written.fs
                /\ backups' = written.backups
                /\ file_op' = FileOp("ensure_lines", filepath, lines_to_ensure,
                                     "created", {})
       ELSE IF LinesToAdd(fs[filepath], lines_to_ensure) = <<>>
       THEN /\ UNCHANGED <<fs, backups>>
            /\ file_op' = FileOp("ensure_lines", filepath, lines_to_ensure,
                                 "present", {})
       ELSE /\ backups' = create_backup(filepath)
            /\ fs' = Put(fs, filepath,
                         EnsuredContent(fs[filepath],
                                        LinesToAdd(fs[filepath], lines_to_ensure)))
            /\ file_op' = FileOp("ensure_lines", filepath, lines_to_ensure,
                                 "added", {BackupName(filepath)})
    /\ WorkspaceTouched

\* the tool ensure_lines called on its own
EnsureLines(filepath, lines_to_ensure) ==
    /\ ensure_lines(filepath, lines_to_ensure)
    /\ UNCHANGED <<agentVars, shellVars, git_log, clock>>

\* ------------------------------------------------------------------------
\* tools/file_system.py: read_file
\* ------------------------------------------------------------------------
\* read_file(filepath); file_op keeps the content that was returned
read_file(filepath) ==
    /\ file_op' = IF Exists(filepath)
                  THEN FileOp("read_file", filepath, fs[filepath], "read", {})
                  ELSE FileOp("read_file", filepath, <<>>, "error", {})
    /\ UNCHANGED <<fs, backups, repo>>

\* the tool read_file called on its own
ReadFile(filepath) ==
    /\ read_file(filepath)
    /\ UNCHANGED <<agentVars, shellVars, git_log, clock>>

\* ------------------------------------------------------------------------
\* tools/code_editing.py: insert_lines, edit_lines
\* ------------------------------------------------------------------------
\* if content and not content.endswith('\n'): content += '\n'
WithNewline(content) ==
    IF content # <<>> /\ ~EndsWith(content, NL) THEN Append(content, NL) ELSE content

\* lines[:after_line] + [content] + lines[after_line:], joined
InsertedContent(file_content, after_line, content) ==
    LET lines == SplitLines(file_content)
    IN  JoinLines(SubSeq(lines, 1, after_line) \o <<WithNewline(content)>>
                  \o SubSeq(lines, after_line + 1, Len(lines)))

\* what file_op keeps of a call of a line tool: as FileOp, and the line
\* numbers and the checkpoint argument handed over
LineOp(tool, checkpoint, filepath, args, content, res, made) ==
    [tool |-> tool, checkpoint |-> checkpoint,
     path |-> filepath, args |-> args, content |-> content,
     existed |-> Exists(filepath),
     before |-> IF Exists(filepath) THEN fs[filepath] ELSE <<>>,
     result |-> res, made |-> made, replaced |-> made \cap DOMAIN backups]

\* the entry of git_log for a commit made by create_checkpoint_if_requested
CheckpointEntry(before, after, message) ==
    [op |-> "checkpoint", before |-> before, after |-> after, message |-> message]

\* the commit of a requested checkpoint, on the tree the tool left
CheckpointAfter(touched, checkpoint, operation, filepath) ==
    /\ repo' = create_checkpoint_if_requested(touched, checkpoint)
    /\ git_log' = IF repo' # touched
                  THEN Append(git_log,
                              CheckpointEntry(touched, repo',
                                  checkpoint_message(checkpoint, operation, filepath)))
                  ELSE git_log

\* the tool insert_lines(filepath, after_line, content, checkpoint)
InsertLines(filepath, after_line, content, checkpoint) ==
    /\ IF ~Exists(filepath)
       THEN /\ UNCHANGED <<fs, backups, gitVars>>
            /\ file_op' = LineOp("insert_lines", checkpoint, filepath, <<after_line>>, content,
                                 "error", {})
       ELSE IF after_line < 0 \/ after_line > Len(SplitLines(fs[filepath]))
       THEN /\ UNCHANGED <<fs, backups, gitVars>>
            /\ file_op' = LineOp("insert_lines", checkpoint, filepath, <<after_line>>, content,
                                 "failed", {})
       ELSE /\ backups' = create_backup(filepath)
            /\ fs' = Put(fs, filepath, InsertedContent(fs[filepath], after_line, content))
            /\ file_op' = LineOp("insert_lines", checkpoint, filepath, <<after_line>>, content,
                                 "inserted", {BackupName(filepath)})
            /\ CheckpointAfter([repo EXCEPT !.dirty = TRUE], checkpoint,
                                   "insert_lines", filepath)
    /\ UNCHANGED <<agentVars, shellVars, clock>>

\* CodeAgent.edit_lines: the index checks
EditAccepted(file_content, start_line, end_line) ==
    /\ ~(start_line < 1 \/ end_line < 1)
    /\ ~(start_line > Len(SplitLines(file_content)) + 1)
    /\ ~(end_line > Len(SplitLines(file_content)) + 1)

\* CodeAgent.edit_lines: lines[:start_idx] + [new_content] + lines[end_idx:],
\* joined
EditedContent(file_content, start_line, end_line, new_content) ==
    LET lines == SplitLines(file_content)
    IN  JoinLines(SubSeq(lines, 1, start_line - 1) \o <<WithNewline(new_content)>>
                  \o SubSeq(lines, end_line + 1, Len(lines)))

\* the tool edit_lines(filepath, start_line, end_line, new_content, checkpoint)
EditLines(filepath, start_line, end_line, new_content, checkpoint) ==
    /\ IF ~Exists(filepath)
       THEN /\ UNCHANGED <<fs, backups, gitVars>>
            /\ file_op' = LineOp("edit_lines", checkpoint, filepath, <<start_line, end_line>>,
                                 new_content, "error", {})
       ELSE IF ~EditAccepted(fs[filepath], start_line, end_line)
       THEN /\ UNCHANGED <<fs, backups, gitVars>>
            /\ file_op' = LineOp("edit_lines", checkpoint, filepath, <<start_line, end_line>>,
                                 new_content, "failed", {})
       ELSE LET written == code_agent_write_file(fs, backups, filepath,
                               EditedContent(fs[filepath], start_line, end_line,
                                             new_content))
            IN  /\ fs' = written.fs
                /\ backups' = written.backups
                /\ file_op' = LineOp("edit_lines", checkpoint, filepath, <<start_line, end_line>>,
                                     new_content, "edited", {BackupName(filepath)})
                /\ CheckpointAfter([repo EXCEPT !.dirty = TRUE], checkpoint,
                                   "edit_lines", filepath)
    /\ UNCHANGED <<agentVars, shellVars, clock>>

\* ------------------------------------------------------------------------
\* CodeAgent.delete_lines and the tool delete_lines
\* ------------------------------------------------------------------------
\* an optional list argument: <<>> is None, <<list>> is the list
NoList == <<>>

\* the set lines_to_remove of the index-list form, 0-indexed
IndexSelection(line_indices) == { line_indices[i] : i \in DOMAIN line_indices }

\* the set lines_to_remove of the range form, 0-indexed
RangeSelection(start_line, end_line) == { n - 1 : n \in start_line..end_line }

\* the checks of delete_lines that return False, the parameter checks, the
\* index checks and the empty selection
DeleteAccepted(file_content, start_line, end_line, line_indices) ==
    LET total_lines == Len(SplitLines(file_content))
    IN  /\ ~(start_line = NoInt /\ end_line = NoInt /\ line_indices = NoList)
        /\ ~((start_line # NoInt \/ end_line # NoInt) /\ line_indices # NoList)
        /\ IF line_indices # NoList
           THEN /\ \A i \in DOMAIN line_indices[1] :
                       ~(line_indices[1][i] < 0 \/ line_indices[1][i] >= total_lines)
                /\ IndexSelection(line_indices[1]) # {}
           ELSE /\ ~(start_line = NoInt \/ end_line = NoInt)
                /\ ~(start_line[1] < 1 \/ end_line[1] < 1)
                /\ ~(start_line[1] > total_lines)
                /\ ~(end_line[1] > total_lines)
                /\ ~(start_line[1] > end_line[1])
                /\ RangeSelection(start_line[1], end_line[1]) # {}

\* lines_to_remove of an accepted call
LinesToRemove(start_line, end_line, line_indices) ==
    IF line_indices # NoList THEN IndexSelection(line_indices[1])
    ELSE RangeSelection(start_line[1], end_line[1])

\* del new_lines[idx]
DelAt(lines, index) == SubSeq(lines, 1, index) \o SubSeq(lines, index + 2, Len(lines))

\* a variant that deletes in ascending order of the indices
RECURSIVE DeleteDescending_Ascending(_, _)
DeleteDescending_Ascending(lines, lines_to_remove) ==
    IF lines_to_remove = {} THEN lines
    ELSE LET first == CHOOSE i \in lines_to_remove : \A j \in lines_to_remove : i <= j
         IN  DeleteDescending_Ascending(DelAt(lines, first), lines_to_remove \ {first})

\* for idx in sorted(lines_to_remove, reverse=True): del new_lines[idx]
RECURSIVE DeleteDescending(_, _)
DeleteDescending(lines, lines_to_remove) ==
    IF lines_to_remove = {} THEN lines
    ELSE LET last == CHOOSE i \in lines_to_remove : \A j \in lines_to_remove : j <= i
         IN  DeleteDescending(DelAt(lines, last), lines_to_remove \ {last})

\* new_file_content
DeletedContent(file_content, lines_to_remove) ==
    JoinLines(DeleteDescending(SplitLines(file_content), lines_to_remove))

\* the tool delete_lines(filepath, start_line, end_line, line_indices,
\* checkpoint)
DeleteLines(filepath, start_line, end_line, line_indices, checkpoint) ==
    /\ IF /\ ~(start_line = NoInt /\ end_line = NoInt /\ line_indices = NoList)
          /\ ~((start_line # NoInt \/ end_line # NoInt) /\ line_indices # NoList)
          /\ ~Exists(filepath)
       THEN /\ UNCHANGED <<fs, backups, gitVars>>
            /\ file_op' = LineOp("delete_lines", checkpoint, filepath,
                                 <<start_line, end_line, line_indices>>, <<>>,
                                 "error", {})
       ELSE IF ~Exists(filepath)
               \/ ~DeleteAccepted(fs[filepath], start_line, end_line, line_indices)
       THEN /\ UNCHANGED <<fs, backups, gitVars>>
            /\ file_op' = LineOp("delete_lines", checkpoint, filepath,
                                 <<start_line, end_line, line_indices>>, <<>>,
                                 "failed", {})
       ELSE LET written == code_agent_write_file(fs, create_backup(filepath), filepath,
                               DeletedContent(fs[filepath],
                                   LinesToRemove(start_line, end_line, line_indices)))
            IN  /\ fs' = written.fs
                /\ backups' = written.backups
                /\ file_op' = LineOp("delete_lines", checkpoint, filepath,
                                     <<start_line, end_line, line_indices>>, <<>>,
                                     "deleted", {BackupName(filepath)})
                /\ CheckpointAfter([repo EXCEPT !.dirty = TRUE], checkpoint,
                                   "delete_lines", filepath)
    /\ UNCHANGED <<agentVars, shellVars, clock>>

\* ------------------------------------------------------------------------
\* CodeAgent.apply_edits
\* ------------------------------------------------------------------------
\* FileEdit(start_line, end_line, new_content)
FileEdit(start_line, end_line, new_content) ==
    [start_line |-> start_line, end_line |-> end_line, new_content |-> new_content]

\* one step of a stable sort by start_line, largest first: edit goes behind
\* the edits that do not start before it
RECURSIVE InsertByStartLine(_, _)
InsertByStartLine(sorted, edit) ==
    IF sorted = <<>> THEN <<edit>>
    ELSE IF Head(sorted).start_line >= edit.start_line
    THEN <<Head(sorted)>> \o InsertByStartLine(Tail(sorted), edit)
    ELSE <<edit>> \o sorted

\* sorted(edits, key=lambda e: e.start_line, reverse=True)
RECURSIVE SortedEdits(_)
SortedEdits(edits) ==
    IF edits = <<>> THEN <<>>
    ELSE InsertByStartLine(SortedEdits(SubSeq(edits, 1, Len(edits) - 1)),
                           edits[Len(edits)])

\* a variant that validates the first edit of the batch only
EditsValid_FirstOnly(file_content, edits) ==
    /\ ~(edits[1].start_line < 1 \/ edits[1].end_line < 1)
    /\ ~(\/ edits[1].start_line > Len(SplitLines(file_content)) + 1
         \/ edits[1].end_line > Len(SplitLines(file_content)) + 1)

\* the validation loop, against the lines of the file as read
EditsValid(file_content, edits) ==
    \A i \in DOMAIN edits :
        /\ ~(edits[i].start_line < 1 \/ edits[i].end_line < 1)
        /\ ~(\/ edits[i].start_line > Len(SplitLines(file_content)) + 1
             \/ edits[i].end_line > Len(SplitLines(file_content)) + 1)

\* the application loop: each edit puts its content, as one element, in the
\* place of the elements start_line..end_line of the list
RECURSIVE ApplySorted(_, _)
ApplySorted(lines, sorted_edits) ==
    IF sorted_edits = <<>> THEN lines
    ELSE LET edit == Head(sorted_edits)
         IN  ApplySorted(SubSeq(lines, 1, edit.start_line - 1)
                         \o <<WithNewline(edit.new_content)>>
                         \o SubSeq(lines, edit.end_line + 1, Len(lines)),
                         Tail(sorted_edits))

\* new_file_content
AppliedContent(file_content, edits) ==
    JoinLines(ApplySorted(SplitLines(file_content), SortedEdits(edits)))

\* apply_edits(filepath, edits, show_preview); confirmed is the answer to the
\* prompt of write_file
ApplyEdits(filepath, edits, confirmed) ==
    /\ Exists(filepath)
    /\ IF edits = <<>> \/ ~EditsValid(fs[filepath], edits)
       THEN /\ UNCHANGED <<fs, backups>>
            /\ file_op' = LineOp("apply_edits", NoCheckpoint, filepath, edits, <<>>, "failed", {})
       ELSE IF ~confirmed
       THEN /\ UNCHANGED <<fs, backups>>
            /\ file_op' = LineOp("apply_edits", NoCheckpoint, filepath, edits, <<>>, "cancelled", {})
       ELSE LET written == code_agent_write_file(fs, backups, filepath,
                               AppliedContent(fs[filepath], edits))
            IN  /\ fs' = written.fs
                /\ backups' = written.backups
                /\ file_op' = LineOp("apply_edits", NoCheckpoint, filepath, edits, <<>>, "applied",
                                     {BackupName(filepath)})
    /\ WorkspaceTouched
    /\ UNCHANGED <<agentVars, shellVars, git_log, clock>>

\* ------------------------------------------------------------------------
\* tools/git_tools.py: the git tools
\* ------------------------------------------------------------------------
\* the git variables after a tool left the repository after; git_log keeps
\* the session starts and the commits that were made
GitDone(op, after) ==
    /\ repo' = after
    /\ git_log' = IF after # repo /\ op \in {"session_start", "checkpoint"}
                  THEN Append(git_log, GitEntry(op, repo, after))
                  ELSE git_log
    /\ UNCHANGED <<agentVars, shellVars, fileVars>>

\* the tool git_session_start(description)
GitSessionStart == GitDone("session_start", git_session_start(repo, NewSessionBranch))

\* the tool git_checkpoint(message)
GitCheckpoint ==
    GitDone("checkpoint",
            IF ~is_git_repo(repo) THEN repo
            ELSE IF ~has_changes(repo) THEN repo
            ELSE Commit(repo))

\* a variant that checks out whatever the working tree holds
git_branch_switch_Dirty(r, name, create_if_missing) ==
    IF ~is_git_repo(r) THEN r
    ELSE IF create_if_missing THEN CheckoutNewBranch(r, name)
    ELSE IF r.is_repo /\ name \in r.branches
    THEN [r EXCEPT !.head = name]
    ELSE r

\* git_branch_switch(name, workspace, create_if_missing): the repository it
\* leaves
git_branch_switch(r, name, create_if_missing) ==
    IF ~is_git_repo(r) THEN r
    ELSE IF has_changes(r) THEN r
    ELSE IF create_if_missing THEN CheckoutNewBranch(r, name)
    ELSE IF r.is_repo /\ name \in r.branches
    THEN [r EXCEPT !.head = name]
    ELSE r

\* the tool git_branch_switch(name, create_if_missing)
GitBranchSwitch(name, create_if_missing) ==
    GitDone("branch_switch", git_branch_switch(repo, name, create_if_missing))

\* git stash push: an entry for the changes of the working tree, which is
\* then clean; nothing when there is no change
StashPush(r) ==
    IF r.is_repo /\ r.dirty
    THEN [r EXCEPT !.dirty = FALSE, !.stashes = @ + 1]
    ELSE r

\* git_stash_save(name, workspace): the repository it leaves
git_stash_save(r) ==
    IF ~is_git_repo(r) THEN r
    ELSE IF ~has_changes(r) THEN r
    ELSE StashPush(r)

\* the tool git_stash_save(name)
GitStashSave == GitDone("stash_save", git_stash_save(repo))

\* the tool git_rollback(ref, hard), without files: the soft mode stashes
\* the working tree and leaves the difference with ref in the index
GitRollback(ref, hard) ==
    GitDone("rollback",
            IF ~is_git_repo(repo) THEN repo
            ELSE IF ~repo.is_repo \/ ref[1] > repo.commits
            THEN IF hard THEN repo ELSE StashPush(repo)
            ELSE [(IF hard THEN repo ELSE StashPush(repo))
                      EXCEPT !.tip = [@ EXCEPT ![repo.head] = ref],
                             !.dirty = IF hard THEN FALSE
                                       ELSE ref # repo.tip[repo.head]])

\* a second passes
Tick ==
    /\ clock < MaxClock
    /\ clock' = clock + 1
    /\ UNCHANGED <<agentVars, shellVars, gitVars, fs, backups, file_op>>

\* ------------------------------------------------------------------------
\* tools/shell.py: run_command, run_script
\* ------------------------------------------------------------------------
\* sub in s
Contains(s, sub) ==
    \E i \in 0..(Len(s) - Len(sub)) : SubSeq(s, i + 1, i + Len(sub)) = sub

\* str.lower() on the ASCII letters
Uppercase == <<"A", "B", "C", "D", "E", "F", "G", "H", "I", "J", "K", "L", "M", "N", "O", "P", "Q", "R", "S", "T", "U", "V", "W", "X", "Y", "Z">>
Lowercase == <<"a", "b", "c", "d", "e", "f", "g", "h", "i", "j", "k", "l", "m", "n", "o", "p", "q", "r", "s", "t", "u", "v", "w", "x", "y", "z">>
LowerChar(c) ==
    IF \E i \in DOMAIN Uppercase : Uppercase[i] = c
    THEN Lowercase[CHOOSE i \in DOMAIN Uppercase : Uppercase[i] = c]
    ELSE c
Lower(s) == [i \in DOMAIN s |-> LowerChar(s[i])]

\* the denylist of run_command
dangerous_commands ==
    { <<"r", "m", " ", "-", "r", "f">>,
      <<"m", "k", "f", "s">>,
      <<"d", "d">>,
      <<":", "(", ")", "{", ":", "|", ":", "&", "}", ";", ":">>,
      <<"f", "o", "r", "k", " ", "b", "o", "m", "b">>,
      <<">", "(">>,
      <<"/", "d", "e", "v", "/", "s", "d", "a">>,
      <<"m", "v", " ", "/", " ">>,
      <<"c", "h", "m", "o", "d", " ", "-", "R", " ", "7", "7", "7", " ", "/">>,
      <<">", " ", "/", "d", "e", "v", "/", "s", "d", "a">> }

\* the denylist of run_script
dangerous_patterns ==
    { <<"r", "m", " ", "-", "r", "f", " ", "/">>,
      <<"r", "m", " ", "-", "r", "f", " ", "*">>,
      <<"m", "k", "f", "s">>,
      <<"d", "d", " ", "i", "f", "=">>,
      <<"d", "d", " ", "o", "f", "=", "/", "d", "e", "v">>,
      <<":", "(", ")", "{", ":", "|", ":", "&", "}", ";", ":">>,
      <<">", " ", "/", "d", "e", "v", "/", "s", "d", "a">>,
      <<"c", "h", "m", "o", "d", " ", "-", "R", " ", "7", "7", "7", " ", "/">> }

\* the commands that may hold the process (the list of run_script)
blocking_commands ==
    { <<"u", "v", "i", "c", "o", "r", "n">>,
      <<"g", "u", "n", "i", "c", "o", "r", "n">>,
      <<"p", "y", "t", "h", "o", "n", " ", "-", "m", " ", "h", "t", "t", "p", ".", "s", "e", "r", "v", "e", "r">>,
      <<"f", "l", "a", "s", "k", " ", "r", "u", "n">>,
      <<"d", "j", "a", "n", "g", "o", " ", "r", "u", "n", "s", "e", "r", "v", "e", "r">>,
      <<"n", "p", "m", " ", "s", "t", "a", "r", "t">>,
      <<"n", "p", "m", " ", "r", "u", "n", " ", "d", "e", "v">>,
      <<"y", "a", "r", "n", " ", "s", "t", "a", "r", "t">>,
      <<"y", "a", "r", "n", " ", "d", "e", "v">>,
      <<"p", "y", "t", "h", "o", "n", " ", "a", "p", "p", ".", "p", "y">>,
      <<"p", "y", "t", "h", "o", "n", " ", "m", "a", "i", "n", ".", "p", "y">>,
      <<"n", "o", "d", "e", " ", "s", "e", "r", "v", "e", "r", ".", "j", "s">>,
      <<"n", "o", "d", "e", " ", "a", "p", "p", ".", "j", "s">>,
      <<"r", "a", "i", "l", "s", " ", "s", "e", "r", "v", "e", "r">>,
      <<"r", "a", "i", "l", "s", " ", "s">>,
      <<"p", "h", "p", " ", "-", "S">>,
      <<"p", "h", "p", " ", "a", "r", "t", "i", "s", "a", "n", " ", "s", "e", "r", "v", "e">>,
      <<"j", "u", "p", "y", "t", "e", "r", " ", "n", "o", "t", "e", "b", "o", "o", "k">>,
      <<"j", "u", "p", "y", "t", "e", "r", " ", "l", "a", "b">>,
      <<"s", "t", "r", "e", "a", "m", "l", "i", "t", " ", "r", "u", "n">> }

\* the list of run_command has two more entries
command_blocking_commands ==
    blocking_commands \cup
    { <<"g", "r", "a", "d", "l", "e", " ", "r", "u", "n">>,
      <<"m", "v", "n", " ", "s", "p", "r", "i", "n", "g", "-", "b", "o", "o", "t", ":", "r", "u", "n">> }

allowed_shells == {"bash", "sh", "zsh", "dash"}

\* has_nohup = 'nohup' in command_lower
has_nohup(command) == Contains(Lower(command), <<"n", "o", "h", "u", "p">>)

\* has_background = '&' in command
has_background(command) == Contains(command, <<"&">>)

\* has_pid_save = 'echo $!' in command and '.pid' in command
has_pid_save(command) ==
    /\ Contains(command, <<"e", "c", "h", "o", " ", "$", "!">>)
    /\ Contains(command, <<".", "p", "i", "d">>)

\* is_blocking = any(blocking in command_lower for blocking in blocking_commands)
is_blocking(command, patterns) ==
    \E blocking \in patterns : Contains(Lower(command), blocking)

\* what subprocess.run may do once it is called: return the completed process,
\* raise TimeoutExpired, raise another exception
ProcessOutcomes == {"exit", "timeout", "error"}

\* the checks that run_command and run_script share, after the denylist:
\* the kind of result and the number of calls of subprocess.run
run_checked(command, patterns, proc) ==
    IF /\ is_blocking(command, patterns)
       /\ has_nohup(command) /\ has_background(command) /\ has_pid_save(command)
    THEN [result |-> CASE proc = "exit" -> "server_started"
                       [] proc = "timeout" -> "server_timeout"
                       [] OTHER -> proc,
          spawned |-> 1]
    ELSE IF /\ is_blocking(command, patterns)
            /\ ~(has_nohup(command) /\ has_background(command) /\ has_pid_save(command))
    THEN [result |-> "warning", spawned |-> 0]
    ELSE [result |-> IF proc = "exit" THEN "executed" ELSE proc, spawned |-> 1]

\* run_command(command, workspace, timeout)
run_command(command, proc) ==
    IF \E d \in dangerous_commands : Contains(command, d)
    THEN [result |-> "dangerous", spawned |-> 0]
    ELSE run_checked(command, command_blocking_commands, proc)

\* run_script(script, workspace, shell, timeout)
run_script(script, shell, proc) ==
    IF shell \notin allowed_shells
    THEN [result |-> "shell_not_allowed", spawned |-> 0]
    ELSE IF \E d \in dangerous_patterns : Contains(script, d)
    THEN [result |-> "dangerous", spawned |-> 0]
    ELSE run_checked(script, blocking_commands, proc)

\* what shell_op keeps of a call: the tool, its input, the kind of result and
\* the number of child processes the call started
ShellOp(tool, command, shell, done) ==
    [tool |-> tool, command |-> command, shell |-> shell,
     result |-> done.result, spawned |-> done.spawned]

NoShellOp ==
    [tool |-> "none", command |-> <<>>, shell |-> "none", result |-> "none",
     spawned |-> 0]

\* the tool run_command(command); a child process may write under W
RunCommand(command, proc) ==
    /\ shell_op' = ShellOp("run_command", command, "sh", run_command(command, proc))
    /\ UNCHANGED <<agentVars, gitVars, fileVars>>

\* the tool run_script(script, shell)
RunScript(script, shell, proc) ==
    /\ shell_op' = ShellOp("run_script", script, shell, run_script(script, shell, proc))
    /\ UNCHANGED <<agentVars, gitVars, fileVars>>

\* ------------------------------------------------------------------------
\* tools/shell.py: stop_background_process
\* ------------------------------------------------------------------------
\* what os.kill(pid, sig) may do: return, or raise one of the two errors
KillOutcomes == {"ok", "ProcessLookupError", "PermissionError"}

\* str.isdigit(): not empty, every character a digit; superscript two is a
\* digit for isdigit and not for int()
IsDigit(s) == s # <<>> /\ \A i \in DOMAIN s : s[i] \in {"1", "2", "U+00B2"}
IntRaises(s) == \E i \in DOMAIN s : s[i] = "U+00B2"

\* one call of os.kill as the tool made it; "0" is the signal 0 of a probe
Kill(sig, outcome) == [sig |-> sig, outcome |-> outcome]

\* what the tool has done when it returns
Stopped(signals, res, unlinked, slept) ==
    [signals |-> signals, result |-> res, unlinked |-> unlinked, slept |-> slept]

\* a variant that sends SIGKILL after the wait without asking whether the
\* process is still there
stop_process_KillAlways(pid, env) ==
    IF ~IsDigit(pid) THEN Stopped(<<>>, "invalid", FALSE, 0)
    ELSE IF IntRaises(pid) THEN Stopped(<<>>, "error", FALSE, 0)
    ELSE IF env[1] = "ProcessLookupError"
    THEN Stopped(<<Kill("0", env[1])>>, "gone", TRUE, 0)
    ELSE IF env[1] = "PermissionError"
    THEN Stopped(<<Kill("0", env[1])>>, "denied", FALSE, 0)
    ELSE IF env[2] = "ProcessLookupError"
    THEN Stopped(<<Kill("0", env[1]), Kill("SIGTERM", env[2])>>,
                 "already_finished", TRUE, 0)
    ELSE IF env[2] = "PermissionError"
    THEN Stopped(<<Kill("0", env[1]), Kill("SIGTERM", env[2])>>, "error", FALSE, 0)
    ELSE IF env[4] = "PermissionError"
    THEN Stopped(<<Kill("0", env[1]), Kill("SIGTERM", env[2]), Kill("SIGKILL", env[4])>>,
                 "error", FALSE, 2)
    ELSE Stopped(<<Kill("0", env[1]), Kill("SIGTERM", env[2]), Kill("SIGKILL", env[4])>>,
                 "stopped", TRUE, IF env[4] = "ok" THEN 3 ELSE 2)

\* the tool from the stripped content pid of a PID file that exists; env
\* holds the outcome of the first probe, of SIGTERM, of the second probe and
\* of SIGKILL, for the calls that are made
stop_process(pid, env) ==
    IF ~IsDigit(pid) THEN Stopped(<<>>, "invalid", FALSE, 0)
    ELSE IF IntRaises(pid) THEN Stopped(<<>>, "error", FALSE, 0)
    ELSE IF env[1] = "ProcessLookupError"
    THEN Stopped(<<Kill("0", env[1])>>, "gone", TRUE, 0)
    ELSE IF env[1] = "PermissionError"
    THEN Stopped(<<Kill("0", env[1])>>, "denied", FALSE, 0)
    ELSE IF env[2] = "ProcessLookupError"
    THEN Stopped(<<Kill("0", env[1]), Kill("SIGTERM", env[2])>>,
                 "already_finished", TRUE, 0)
    ELSE IF env[2] = "PermissionError"
    THEN Stopped(<<Kill("0", env[1]), Kill("SIGTERM", env[2])>>, "error", FALSE, 0)
    ELSE IF env[3] = "ProcessLookupError"
    THEN Stopped(<<Kill("0", env[1]), Kill("SIGTERM", env[2]), Kill("0", env[3])>>,
                 "stopped", TRUE, 2)
    ELSE IF env[3] = "PermissionError"
    THEN Stopped(<<Kill("0", env[1]), Kill("SIGTERM", env[2]), Kill("0", env[3])>>,
                 "error", FALSE, 2)
    ELSE IF env[4] = "PermissionError"
    THEN Stopped(<<Kill("0", env[1]), Kill("SIGTERM", env[2]), Kill("0", env[3]),
                   Kill("SIGKILL", env[4])>>, "error", FALSE, 2)
    ELSE Stopped(<<Kill("0", env[1]), Kill("SIGTERM", env[2]), Kill("0", env[3]),
                   Kill("SIGKILL", env[4])>>,
                 "stopped", TRUE, IF env[4] = "ok" THEN 3 ELSE 2)

\* pid_path.unlink()
Unlink(dir, name) == [n \in DOMAIN dir \ {name} |-> dir[n]]

\* the tool stop_background_process(pid_file); shell_op keeps the calls of
\* os.kill in their order and whether the PID file was there
StopBackgroundProcess(pid_file, env) ==
    LET done == IF ~Exists(pid_file) THEN Stopped(<<>>, "not_found", FALSE, 0)
                ELSE stop_process(Strip(fs[pid_file]), env)
    IN  /\ shell_op' = [tool |-> "stop_background_process", command |-> pid_file,
                        shell |-> "none", result |-> done.result, spawned |-> 0,
                        signals |-> done.signals, existed |-> Exists(pid_file),
                        pid |-> IF Exists(pid_file) THEN Strip(fs[pid_file]) ELSE <<>>]
        /\ fs' = IF done.unlinked THEN Unlink(fs, pid_file) ELSE fs
        /\ clock' = clock + done.slept
        /\ UNCHANGED <<backups, file_op>>
        /\ WorkspaceTouched
        /\ UNCHANGED <<agentVars, git_log>>

\* ------------------------------------------------------------------------
\* CodeAgent.search_replace and the tool search_replace
\* ------------------------------------------------------------------------
\* content.replace(search, replace): every occurrence, from the left, none
\* overlapping another; an empty search text matches before every character
\* and at the end
RECURSIVE StrReplace(_, _, _)
StrReplace(content, search, replace) ==
    IF search = <<>>
    THEN IF content = <<>> THEN replace
         ELSE replace \o <<Head(content)>> \o StrReplace(Tail(content), search, replace)
    ELSE IF Len(content) < Len(search) THEN content
    ELSE IF StartsWith(content, search)
    THEN replace \o StrReplace(SubSeq(content, Len(search) + 1, Len(content)),
                               search, replace)
    ELSE <<Head(content)>> \o StrReplace(Tail(content), search, replace)

\* CodeAgent.search_replace: False when search is not in content, else the
\* outcome of write_file
code_agent_search_replace(file_content, search) == Contains(file_content, search)

\* the text the tool search_replace returns for the call that file_op keeps:
\* the return value of CodeAgent.search_replace is not looked at, only an
\* exception changes the text
search_replace_text(op) ==
    IF op.result = "error" THEN "error" ELSE "success"

\* the tool search_replace(filepath, search, replace, checkpoint)
SearchReplace(filepath, search, replace, checkpoint) ==
    /\ IF ~Exists(filepath)
       THEN /\ UNCHANGED <<fs, backups, gitVars>>
            /\ file_op' = LineOp("search_replace", checkpoint, filepath,
                                 <<search>>, replace, "error", {})
       ELSE IF ~code_agent_search_replace(fs[filepath], search)
       THEN /\ UNCHANGED <<fs, backups>>
            /\ file_op' = LineOp("search_replace", checkpoint, filepath,
                                 <<search>>, replace, "not_found", {})
            /\ CheckpointAfter(repo, checkpoint, "search_replace", filepath)
       ELSE LET written == code_agent_write_file(fs, backups, filepath,
                               StrReplace(fs[filepath], search, replace))
            IN  /\ fs' = written.fs
                /\ backups' = written.backups
                /\ file_op' = LineOp("search_replace", checkpoint, filepath,
                                     <<search>>, replace, "replaced",
                                     {BackupName(filepath)})
                /\ CheckpointAfter([repo EXCEPT !.dirty = TRUE], checkpoint,
                                   "search_replace", filepath)
    /\ UNCHANGED <<agentVars, shellVars, clock>>

\* ------------------------------------------------------------------------
\* The text of the tool results and the scan for blocking patterns
\* ------------------------------------------------------------------------
\* a character outside ASCII is written as its code point; of each message
\* the first line is kept, followed by the arguments and the file contents
\* the message quotes; a file name stands for its characters
RECURSIVE PathText(_)
PathText(filepath) ==
    IF Len(filepath) <= 1 THEN filepath
    ELSE <<Head(filepath), "/">> \o PathText(Tail(filepath))

\* blocking_patterns of execute_task
blocking_patterns ==
    { <<"U+1F6AB", " ", "B", "L", "O", "Q", "U", "E", "I", "O", ":">>,
      <<"A", "U+00C7", "U+00C3", "O", " ", "B", "L", "O", "Q", "U", "E", "A",
        "D", "A">>,
      <<"R", "E", "P", "L", "A", "N", "E", "J", "A", "M", "E", "N", "T", "O",
        " ", "N", "E", "C", "E", "S", "S", "U+00C1", "R", "I", "O">>,
      <<"U+26A0", "U+FE0F", " ", "A", "r", "q", "u", "i", "v", "o">>,
      <<"J", "U+00C1", " ", "E", "X", "I", "S", "T", "E", " ", "c", "o", "m",
        " ", "c", "o", "n", "t", "e", "U+00FA", "d", "o", " ", "d", "i", "f",
        "e", "r", "e", "n", "t", "e">>,
      <<"p", "o", "d", "e", " ", "t", "r", "a", "v", "a", "r", " ", "o", " ",
        "p", "r", "o", "c", "e", "s", "s", "o">>,
      <<"A", "V", "I", "S", "O", ":", " ", "E", "s", "t", "e", " ", "c", "o",
        "m", "a", "n", "d", "o">> }

\* is_blocking_result = any(pattern in tool_result for pattern in blocking_patterns)
is_blocking_result(tool_result) ==
    \E pattern \in blocking_patterns : Contains(tool_result, pattern)

\* the string write_file returns
write_file_result(op) ==
    CASE op.result = "created" ->
              <<"U+2713", " ", "A", "r", "q", "u", "i", "v", "o", " ">>
           \o PathText(op.path)
           \o <<" ", "C", "R", "I", "A", "D", "O", " ", "c", "o", "m", " ",
                "s", "u", "c", "e", "s", "s", "o", ".">>
      [] op.result = "adapted" ->
              <<"U+2713", " ", "A", "r", "q", "u", "i", "v", "o", " ">>
           \o PathText(op.path)
           \o <<" ", "A", "D", "A", "P", "T", "A", "D", "O", ":", " ", "c",
                "o", "n", "t", "e", "U+00FA", "d", "o", " ", "a", "d", "i",
                "c", "i", "o", "n", "a", "l", " ", "a", "d", "i", "c", "i",
                "o", "n", "a", "d", "o", " ", "a", "o", " ", "f", "i", "n",
                "a", "l", ".", " ", "B", "a", "c", "k", "u", "p", " ", "c",
                "r", "i", "a", "d", "o", ".">>
      [] op.result = "unchanged" ->
              <<"U+2139", "U+FE0F", " ", "A", "r", "q", "u", "i", "v", "o",
                " ">>
           \o PathText(op.path)
           \o <<" ", "j", "U+00E1", " ", "c", "o", "n", "t", "U+00E9", "m",
                " ", "e", "x", "a", "t", "a", "m", "e", "n", "t", "e", " ",
                "o", " ", "c", "o", "n", "t", "e", "U+00FA", "d", "o", " ",
                "s", "o", "l", "i", "c", "i", "t", "a", "d", "o", ".", " ",
                "N", "e", "n", "h", "u", "m", "a", " ", "m", "u", "d", "a",
                "n", "U+00E7", "a", " ", "n", "e", "c", "e", "s", "s",
                "U+00E1", "r", "i", "a", ".">>
      [] op.result = "blocked_similar" ->
              <<"U+1F6AB", " ", "B", "L", "O", "Q", "U", "E", "I", "O", ":",
                " ", "A", "r", "q", "u", "i", "v", "o", " ", "'">>
           \o PathText(op.path)
           \o <<"'", " ", "J", "U+00C1", " ", "E", "X", "I", "S", "T", "E",
                " ", "c", "o", "m", " ", "c", "o", "n", "t", "e", "U+00FA",
                "d", "o", " ", "s", "i", "m", "i", "l", "a", "r", ".", NL>>
           \o op.before
      [] op.result = "blocked_different" ->
              <<"U+1F6AB", " ", "B", "L", "O", "Q", "U", "E", "I", "O", ":",
                " ", "A", "r", "q", "u", "i", "v", "o", " ", "'">>
           \o PathText(op.path)
           \o <<"'", " ", "J", "U+00C1", " ", "E", "X", "I", "S", "T", "E",
                " ", "c", "o", "m", " ", "c", "o", "n", "t", "e", "U+00FA",
                "d", "o", " ", "d", "i", "f", "e", "r", "e", "n", "t", "e",
                ".", NL>>
           \o op.before

\* the string force_write_file returns
force_write_file_result(op) ==
    CASE op.result = "missing" ->
              <<"U+26A0", "U+FE0F", " ", "A", "r", "q", "u", "i", "v", "o",
                " ", "'">>
           \o PathText(op.path)
           \o <<"'", " ", "N", "U+00C3", "O", " ", "E", "X", "I", "S", "T",
                "E", ".", " ", "U", "s", "e", " ", "'", "w", "r", "i", "t",
                "e", "_", "f", "i", "l", "e", "'", " ", "p", "a", "r", "a",
                " ", "c", "r", "i", "a", "r", ".">>
      [] op.result = "overwritten" ->
              <<"U+2713", " ", "A", "r", "q", "u", "i", "v", "o", " ">>
           \o PathText(op.path)
           \o <<" ", "S", "O", "B", "R", "E", "S", "C", "R", "I", "T", "O",
                " ", "c", "o", "m", " ", "s", "u", "c", "e", "s", "s", "o",
                ".", " ", "M", "o", "t", "i", "v", "o", ":", " ">>

\* the string update_file returns
update_file_result(op) ==
    CASE op.result = "missing" ->
              <<"U+26A0", "U+FE0F", " ", "A", "r", "q", "u", "i", "v", "o",
                " ", "'">>
           \o PathText(op.path)
           \o <<"'", " ", "N", "U+00C3", "O", " ", "E", "X", "I", "S", "T",
                "E", ".", NL>>
      [] op.result = "unchanged" ->
              <<"U+2139", "U+FE0F", " ", "A", "r", "q", "u", "i", "v", "o",
                " ", "'">>
           \o PathText(op.path)
           \o <<"'", " ", "j", "U+00E1", " ", "c", "o", "n", "t", "U+00E9",
                "m", " ", "e", "x", "a", "t", "a", "m", "e", "n", "t", "e",
                " ", "o", " ", "c", "o", "n", "t", "e", "U+00FA", "d", "o",
                " ", "s", "o", "l", "i", "c", "i", "t", "a", "d", "o", ".",
                " ", "N", "e", "n", "h", "u", "m", "a", " ", "m", "u", "d",
                "a", "n", "U+00E7", "a", " ", "n", "e", "c", "e", "s", "s",
                "U+00E1", "r", "i", "a", ".">>
      [] op.result = "updated" ->
              <<"U+2705", " ", "A", "r", "q", "u", "i", "v", "o", " ", "'">>
           \o PathText(op.path)
           \o <<"'", " ", "A", "T", "U", "A", "L", "I", "Z", "A", "D", "O",
                " ", "c", "o", "m", " ", "s", "u", "c", "e", "s", "s", "o",
                "!", NL>>
           \o op.before
           \o op.content

\* the string read_file returns
read_file_result(op) ==
    CASE op.result = "read" ->
              <<"U+2713", " ", "C", "o", "n", "t", "e", "U+00FA", "d", "o",
                " ", "d", "e", " ">>
           \o PathText(op.path)
           \o <<":", NL, NL>>
           \o op.content
      [] op.result = "error" ->
              <<"U+2717", " ", "E", "r", "r", "o", " ", "a", "o", " ", "l",
                "e", "r", " ">>
           \o PathText(op.path)
           \o <<":", " ">>

\* the string run_command returns; the output of the child process is left out
run_command_result(op) ==
    CASE op.result = "dangerous" ->
              <<"U+2717", " ", "B", "L", "O", "Q", "U", "E", "A", "D", "O",
                ":", " ", "C", "o", "m", "a", "n", "d", "o", " ", "p", "o",
                "t", "e", "n", "c", "i", "a", "l", "m", "e", "n", "t", "e",
                " ", "p", "e", "r", "i", "g", "o", "s", "o", " ", "d", "e",
                "t", "e", "c", "t", "a", "d", "o", ".">>
      [] op.result = "warning" ->
              <<"U+26A0", "U+FE0F", " ", "A", "V", "I", "S", "O", ":", " ",
                "E", "s", "t", "e", " ", "c", "o", "m", "a", "n", "d", "o",
                " ", "p", "o", "d", "e", " ", "t", "r", "a", "v", "a", "r",
                " ", "o", " ", "p", "r", "o", "c", "e", "s", "s", "o", "!",
                NL, NL, "O", " ", "c", "o", "m", "a", "n", "d", "o", " ",
                "'">>
           \o op.command
           \o <<"'", " ", "p", "a", "r", "e", "c", "e", " ", "s", "e", "r",
                " ", "u", "m", " ", "s", "e", "r", "v", "i", "d", "o", "r",
                " ", "o", "u", " ", "p", "r", "o", "c", "e", "s", "s", "o",
                " ", "d", "e", " ", "l", "o", "n", "g", "a", " ", "d", "u",
                "r", "a", "U+00E7", "U+00E3", "o">>
      [] op.result = "server_started" ->
              <<"U+2713", " ", "S", "e", "r", "v", "i", "d", "o", "r", " ",
                "i", "n", "i", "c", "i", "a", "d", "o", " ", "e", "m", " ",
                "B", "A", "C", "K", "G", "R", "O", "U", "N", "D", ":", " ">>
           \o op.command
           \o <<NL, "E", "x", "i", "t", " ", "c", "o", "d", "e", ":", " ">>
      [] op.result = "executed" ->
              <<"U+2713", " ", "C", "o", "m", "a", "n", "d", "o", " ", "e",
                "x", "e", "c", "u", "t", "a", "d", "o", ":", " ">>
           \o op.command
           \o <<NL, "E", "x", "i", "t", " ", "c", "o", "d", "e", ":", " ">>
      [] op.result = "server_timeout" ->
              <<"U+2717", " ", "T", "I", "M", "E", "O", "U", "T", " ", "a",
                "o", " ", "i", "n", "i", "c", "i", "a", "r", " ", "s", "e",
                "r", "v", "i", "d", "o", "r", " ", "e", "m", " ", "b", "a",
                "c", "k", "g", "r", "o", "u", "n", "d", ".", " ", "V", "e",
                "r", "i", "f", "i", "q", "u", "e", " ", "o", " ", "c", "o",
                "m", "a", "n", "d", "o", ".">>
      [] op.result = "timeout" ->
              <<"U+2717", " ", "T", "I", "M", "E", "O", "U", "T", ":", " ",
                "C", "o", "m", "a", "n", "d", "o", " ", "e", "x", "c", "e",
                "d", "e", "u", " ", "3", "0", "s", " ", "d", "e", " ", "e",
                "x", "e", "c", "u", "U+00E7", "U+00E3", "o", ".", NL, NL,
                "U+26A0", "U+FE0F", " ", "E", "s", "t", "e", " ", "c", "o",
                "m", "a", "n", "d", "o", " ", "p", "o", "d", "e", " ", "s",
                "e", "r", " ", "u", "m", " ", "p", "r", "o", "c", "e", "s",
                "s", "o", " ", "d", "e", " ", "l", "o", "n", "g", "a", " ",
                "d", "u", "r", "a", "U+00E7", "U+00E3", "o", ".", NL>>
           \o op.command
      [] op.result = "error" ->
              <<"U+2717", " ", "E", "r", "r", "o", " ", "a", "o", " ", "e",
                "x", "e", "c", "u", "t", "a", "r", " ", "c", "o", "m", "a",
                "n", "d", "o", ":", " ">>

\* the string run_script returns; the output of the child process is left out
run_script_result(op) ==
    CASE op.result = "shell_not_allowed" ->
              <<"U+2717", " ", "S", "h", "e", "l", "l", " ", "n", "U+00E3",
                "o", " ", "p", "e", "r", "m", "i", "t", "i", "d", "o", ":",
                " ">>
           \o <<op.shell>>
      [] op.result = "dangerous" ->
              <<"U+2717", " ", "B", "L", "O", "Q", "U", "E", "A", "D", "O",
                ":", " ", "P", "a", "d", "r", "U+00E3", "o", " ", "p", "e",
                "r", "i", "g", "o", "s", "o", " ", "d", "e", "t", "e", "c",
                "t", "a", "d", "o", " ", "n", "o", " ", "s", "c", "r", "i",
                "p", "t", ".">>
      [] op.result = "warning" ->
              <<"U+26A0", "U+FE0F", " ", "A", "V", "I", "S", "O", ":", " ",
                "E", "s", "t", "e", " ", "s", "c", "r", "i", "p", "t", " ",
                "p", "o", "d", "e", " ", "t", "r", "a", "v", "a", "r", " ",
                "o", " ", "p", "r", "o", "c", "e", "s", "s", "o", "!", NL>>
      [] op.result = "server_started" ->
              <<"U+2713", " ", "S", "c", "r", "i", "p", "t", " ">>
           \o <<op.shell>>
           \o <<" ", "e", "x", "e", "c", "u", "t", "a", "d", "o", " ", "(",
                "s", "e", "r", "v", "i", "d", "o", "r", " ", "e", "m", " ",
                "b", "a", "c", "k", "g", "r", "o", "u", "n", "d", ")", NL,
                "E", "x", "i", "t", " ", "c", "o", "d", "e", ":", " ">>
      [] op.result = "executed" ->
              <<"U+2713", " ", "S", "c", "r", "i", "p", "t", " ">>
           \o <<op.shell>>
           \o <<" ", "e", "x", "e", "c", "u", "t", "a", "d", "o", NL, "E",
                "x", "i", "t", " ", "c", "o", "d", "e", ":", " ">>
      [] op.result = "server_timeout" ->
              <<"U+2717", " ", "T", "I", "M", "E", "O", "U", "T", " ", "a",
                "o", " ", "e", "x", "e", "c", "u", "t", "a", "r", " ", "s",
                "c", "r", "i", "p", "t", ".", " ", "V", "e", "r", "i", "f",
                "i", "q", "u", "e", " ", "o", "s", " ", "c", "o", "m", "a",
                "n", "d", "o", "s", ".">>
      [] op.result = "timeout" ->
              <<"U+2717", " ", "T", "I", "M", "E", "O", "U", "T", ":", " ",
                "S", "c", "r", "i", "p", "t", " ", "e", "x", "c", "e", "d",
                "e", "u", " ", "6", "0", "s", " ", "d", "e", " ", "e", "x",
                "e", "c", "u", "U+00E7", "U+00E3", "o", ".", NL, NL,
                "U+26A0", "U+FE0F", " ", "E", "s", "t", "e", " ", "s", "c",
                "r", "i", "p", "t", " ", "p", "o", "d", "e", " ", "c", "o",
                "n", "t", "e", "r", " ", "p", "r", "o", "c", "e", "s", "s",
                "o", "s", " ", "d", "e", " ", "l", "o", "n", "g", "a", " ",
                "d", "u", "r", "a", "U+00E7", "U+00E3", "o", ".", NL>>
      [] op.result = "error" ->
              <<"U+2717", " ", "E", "r", "r", "o", " ", "a", "o", " ", "e",
                "x", "e", "c", "u", "t", "a", "r", " ", "s", "c", "r", "i",
                "p", "t", ":", " ">>

\* ------------------------------------------------------------------------
\* execute_task: dispatch of a call to a file or shell tool
\* ------------------------------------------------------------------------
\* a call of a handler with its decoded arguments
FileCall(tool, filepath, content) ==
    [tool |-> tool, path |-> filepath, content |-> content, command |-> <<>>]
ShellCall(tool, command) ==
    [tool |-> tool, path |-> <<>>, content |-> <<>>, command |-> command]

\* self.tools_registry[tool_name](**tool_args): the handler acts on the
\* workspace and leaves its call in file_op or shell_op
InvokeHandler(call, proc) ==
    CASE call.tool = "write_file" ->
             write_file(call.path, call.content) /\ UNCHANGED shell_op
      [] call.tool = "force_write_file" ->
             force_write_file(call.path, call.content) /\ UNCHANGED shell_op
      [] call.tool = "update_file" ->
             update_file(call.path, call.content) /\ UNCHANGED shell_op
      [] call.tool = "read_file" ->
             read_file(call.path) /\ UNCHANGED shell_op
      [] call.tool = "run_command" ->
             /\ shell_op' = ShellOp("run_command", call.command, "sh",
                                    run_command(call.command, proc))
             /\ UNCHANGED <<fs, backups, file_op, repo>>
      [] call.tool = "run_script" ->
             /\ shell_op' = ShellOp("run_script", call.command, "bash",
                                    run_script(call.command, "bash", proc))
             /\ UNCHANGED <<fs, backups, file_op, repo>>

\* the string the handler returned
HandlerResult(tool, fop, sop) ==
    CASE tool = "write_file" -> write_file_result(fop)
      [] tool = "force_write_file" -> force_write_file_result(fop)
      [] tool = "update_file" -> update_file_result(fop)
      [] tool = "read_file" -> read_file_result(fop)
      [] tool = "run_command" -> run_command_result(sop)
      [] tool = "run_script" -> run_script_result(sop)

\* one pass of the for loop over tool_calls for a call to one of these tools:
\* the handler runs, its string is scanned for the blocking patterns
DispatchHandler(call, proc) ==
    /\ pc = "tools"
    /\ IsJson(CurrentToolCall.arguments)
    /\ CurrentToolCall.name = call.tool
    /\ InvokeHandler(call, proc)
    /\ Dispatched(IF is_blocking_result(HandlerResult(call.tool, file_op', shell_op'))
                  THEN "blocked" ELSE "ok")
    /\ UNCHANGED <<git_log, clock>>

\* ------------------------------------------------------------------------
\* Specification
\* ------------------------------------------------------------------------
\* the per-task iteration caps tried: absent, too small, valid, too large
MaxIterationsArgs ==
    {NoInt} \cup { <<n>> : n \in 0..MaxIter } \cup { <<MAX_ITERATIONS + 1>> }

\* a provider configuration whose endpoints have names of their own
DefaultProviderConfig ==
    [e \in {"M1", "M2", "M3", "M4"} |->
        CASE e = "M1" -> ModelConfig("gpt-4o-mini", None, None)
          [] e = "M2" -> ModelConfig("gpt-4o", None, "sk-2")
          [] e = "M3" -> ModelConfig("qwen3-coder", "http://a/v1", None)
          [] e = "M4" -> ModelConfig("deepseek-r1", "http://b/v1", "sk-4")]

\* ------------------------------------------------------------------------
\* tools/tool_decorator.py: the registration of a tool
\* ------------------------------------------------------------------------
\* a function: its __name__ and its body
Function(name, body) == [name |-> name, body |-> body]

\* the schema object of a registration
Schema(name, description) == [type |-> "function", name |-> name, description |-> description]

\* dict[key] = value
SetItem(d, key, value) ==
    [k \in DOMAIN d \cup {key} |-> IF k = key THEN value ELSE d[k]]

\* a variant that raises on a name that is registered: nothing is stored
decorator_Unique(func, description, complexity) ==
    /\ func.name \notin DOMAIN TOOL_REGISTRY
    /\ TOOL_REGISTRY' = SetItem(TOOL_REGISTRY, func.name, func)
    /\ TOOL_COMPLEXITY' = SetItem(TOOL_COMPLEXITY, func.name, complexity)
    /\ TOOL_SCHEMAS' = Append(TOOL_SCHEMAS, Schema(func.name, description))

\* tool(description, parameters, required, complexity)(func)
decorator(func, description, complexity) ==
    /\ TOOL_REGISTRY' = SetItem(TOOL_REGISTRY, func.name, func)
    /\ TOOL_COMPLEXITY' = SetItem(TOOL_COMPLEXITY, func.name, complexity)
    /\ TOOL_SCHEMAS' = Append(TOOL_SCHEMAS, Schema(func.name, description))

\* the order in which the import of the tool modules registers the names of
\* tools_registry
ImportOrder ==
    <<"read_file", "write_file", "update_file", "force_write_file", "list_files",
      "run_command", "run_script", "check_file_and_suggest_action", "analyze_error">>

\* the three tables after the import of the tool modules
ImportedTools ==
    /\ TOOL_REGISTRY = [n \in tools_registry |-> Function(n, "def")]
    /\ TOOL_SCHEMAS = [i \in DOMAIN ImportOrder |-> Schema(ImportOrder[i], "description")]
    /\ TOOL_COMPLEXITY = tool_complexity

\* the fields of the agent after __init__, before any task, its provider
\* configuration being one of configs
AgentFields(configs) ==
    /\ use_multi_model \in BOOLEAN
    /\ self_max_iterations \in 1..MaxIter
    /\ tool_overrides \in OverrideTables
    /\ model_provider_config \in configs
    /\ model_clients = setup_llm(model_provider_config, tool_overrides)
    /\ pc = "idle"
    /\ max_iterations = NoInt
    /\ skip_planning = FALSE
    /\ skip_validation = FALSE
    /\ task_max_iterations = 0
    /\ messages = <<>>
    /\ iteration = 0
    /\ previous_tool_calls = <<>>
    /\ tool_calls = <<>>
    /\ idx = 0
    /\ last_tool_calls_signature = NoSignature
    /\ repeated_call_count = 0
    /\ blocking_count = 0
    /\ force_complex_model = FALSE
    /\ actions_taken = <<>>
    /\ execution_result = InitialExecutionResult
    /\ result = NoResult
    /\ raised = None
    /\ llm_log = <<>>
    /\ dispatch_log = <<>>
    /\ git_session_started = FALSE
    /\ git_session_branch = None
    /\ first_call_done = FALSE

\* the agent after __init__, the tool modules imported
InitAgentOf(configs) == ImportedTools /\ AgentFields(configs)

InitAgent == InitAgentOf({DefaultProviderConfig})

\* a repository with one commit, HEAD on the base branch
BaseRepo(dirty, branches) ==
    Repo(TRUE, BaseBranch, dirty, branches \cup {BaseBranch},
         [b \in BranchNames |-> IF b \in branches \cup {BaseBranch} THEN <<0>> ELSE NoCommit],
         0)

\* a workspace without files and without backups
InitFiles ==
    /\ fs = [p \in {} |-> <<>>]
    /\ backups = [n \in {} |-> <<>>]
    /\ clock = 0
    /\ file_op = NoFileOp
    /\ shell_op = NoShellOp

Init ==
    /\ InitAgent
    /\ repo = BaseRepo(FALSE, {})
    /\ git_log = <<>>
    /\ InitFiles

\* one pass of the for loop, the handler's outcome being one of
\* Outcomes[tool name]
Dispatch(Outcomes) ==
    /\ pc = "tools"
    /\ \E outcome \in Outcomes[CurrentToolCall.name] : DispatchToolCall(outcome)

\* the tool names the LLM may come up with: the registered ones and one that
\* is not registered
ToolNames == tools_registry \cup {"no_such_tool"}

\* a reply with tool calls over the vocabulary Vocab
LlmReplyWithTools(Vocab) ==
    \E calls \in ToolCallLists(Vocab) : LlmToolCalls(calls)

\* General specification: every kind of task (planning and validation on or
\* off, every iteration cap), an LLM that calls a registered tool with valid
\* or malformed arguments or a tool that does not exist, handlers that
\* return or raise.
LoopVocab ==
    {<<"list_files", "{a:1,b:2}">>, <<"list_files", "{a:1">>,
     <<"no_such_tool", "{a:1,b:2}">>}
LoopOutcomes ==
    [name \in ToolNames |-> IF name \in tools_registry THEN {"ok", "raise"} ELSE {"ok"}]

Next ==
    \/ \E arg \in MaxIterationsArgs, sp \in BOOLEAN, sv \in BOOLEAN :
           ExecuteTask(arg, sp, sv)
    \/ \E outcome \in {"fail", "plan", "empty"} : PhasePlanning(outcome)
    \/ LlmRaises
    \/ LlmFinalAnswer
    \/ LlmReplyWithTools(LoopVocab)
    \/ DispatchMalformed
    \/ Dispatch(LoopOutcomes)
    \/ IterationLimit
    \/ \E reply \in ValidationReplies \cup {{"fail"}} : PhaseValidation(reply)

Spec == Init /\ [][Next]_vars

\* Replan specification: tasks that skip planning and validation; the LLM
\* repeats or varies its calls (two spellings of the same arguments, other
\* arguments, another tool) and write_file may return its block message.
ReplanVocab ==
    {<<"list_files", "{a:1,b:2}">>, <<"list_files", "{b:2,a:1}">>,
     <<"list_files", "{a:2,b:2}">>, <<"write_file", "{a:1,b:2}">>}
ReplanOutcomes ==
    [name \in ToolNames |-> IF name = "write_file" THEN {"ok", "blocked"} ELSE {"ok"}]

NextReplan ==
    \/ ExecuteTask(NoInt, TRUE, TRUE)
    \/ LlmRaises
    \/ LlmFinalAnswer
    \/ LlmReplyWithTools(ReplanVocab)
    \/ Dispatch(ReplanOutcomes)
    \/ IterationLimit

SpecReplan == Init /\ [][NextReplan]_vars

\* Routing specification: tasks that skip planning and validation; the LLM
\* calls tools of every routing class, with or without model overrides.
RoutingVocab ==
    {<<"list_files", "{a:1,b:2}">>, <<"write_file", "{a:1,b:2}">>,
     <<"analyze_error", "{a:1,b:2}">>,
     <<"check_file_and_suggest_action", "{a:1,b:2}">>}
RoutingOutcomes == [name \in ToolNames |-> {"ok"}]

NextRouting ==
    \/ ExecuteTask(NoInt, TRUE, TRUE)
    \/ LlmRaises
    \/ LlmFinalAnswer
    \/ LlmReplyWithTools(RoutingVocab)
    \/ Dispatch(RoutingOutcomes)
    \/ IterationLimit

SpecRouting == Init /\ [][NextRouting]_vars


\* ------------------------------------------------------------------------
\* Properties
\* ------------------------------------------------------------------------
\* the number of LLM calls of the task made in the given phase
CallsOfPhase(phase) ==
    Cardinality({i \in DOMAIN llm_log : llm_log[i].phase = phase})

\* the cap the claims speak of: the per-task argument when one is given, the
\* configured value otherwise
EffectiveCap ==
    IF max_iterations # NoInt THEN max_iterations[1] ELSE self_max_iterations

\* C1 (as stated): the LLM calls of a task, planning, execution loop and
\* validation together, never exceed the effective max_iterations.
C1_TotalCallsWithinCap == Len(llm_log) <= EffectiveCap

\* C1 (amended): the execution-loop LLM calls of a task never exceed the
\* effective max_iterations; the planning call and the validation call, at
\* most one each, come on top of them.
C1_LoopCallsWithinCap ==
    /\ CallsOfPhase("execution") <= EffectiveCap
    /\ CallsOfPhase("planning") <= 1
    /\ CallsOfPhase("validation") <= 1
    /\ Len(llm_log) <= EffectiveCap + 2

\* a task whose per-task cap differs from the configured one has used the
\* whole cap and has planned and validated as well
C1_Witness ==
    /\ pc = "returned"
    /\ max_iterations # NoInt
    /\ max_iterations[1] # self_max_iterations
    /\ CallsOfPhase("execution") = EffectiveCap
    /\ Len(llm_log) = EffectiveCap + 2


\* every LLM call of the execution loop came back, and every reply of the
\* loop carries at least one tool call
EveryReplyCarriesToolCalls ==
    /\ \A i \in DOMAIN llm_log :
           llm_log[i].phase = "execution" => llm_log[i].outcome = "reply"
    /\ \A i \in DOMAIN messages :
           (messages[i].role = "assistant" /\ messages[i].kind = "reply")
               => messages[i].tool_calls # <<>>

\* C2: a task whose every reply carries a tool call ends by returning, after
\* exactly cap execution-loop calls, success = false with the iteration-limit
\* response and iterations = cap, without a validation call.
C2_CapExhaustion ==
    (/\ pc \in {"returned", "raised"}
     /\ raised # "ValueError"
     /\ EveryReplyCarriesToolCalls)
        => /\ pc = "returned"
           /\ CallsOfPhase("execution") = EffectiveCap
           /\ result.success = FALSE
           /\ result.response = "Limite de iteracoes atingido"
           /\ result.iterations = EffectiveCap
           /\ CallsOfPhase("validation") = 0

\* the identifiers an assistant turn introduces
IdsOf(m) == { m.tool_calls[k].id : k \in DOMAIN m.tool_calls }

\* the position of the nearest assistant turn before position i
NearestAssistant(i) ==
    CHOOSE j \in 1..(i - 1) :
        /\ messages[j].role = "assistant"
        /\ \A k \in (j + 1)..(i - 1) : messages[k].role # "assistant"

\* C5: every tool-result turn carries an identifier introduced by the nearest
\* preceding assistant turn, and by no earlier assistant turn.
C5_ToolResultBoundToNearestAssistant ==
    \A i \in DOMAIN messages :
        messages[i].role = "tool" =>
            /\ \E j \in 1..(i - 1) : messages[j].role = "assistant"
            /\ messages[i].tool_call_id \in IdsOf(messages[NearestAssistant(i)])
            /\ \A k \in 1..(NearestAssistant(i) - 1) :
                   messages[k].role = "assistant"
                       => messages[i].tool_call_id \notin IdsOf(messages[k])

\* a tool result of the second turn that follows a replan message of its own
\* turn
C5_Witness ==
    /\ iteration = 2
    /\ \E i \in DOMAIN messages :
           /\ i > 1
           /\ messages[i].role = "tool"
           /\ messages[i - 1].role = "user"
           /\ messages[i - 1].kind = "replan"
           /\ \E k \in 1..(NearestAssistant(i) - 1) : messages[k].tool_calls # <<>>

IsToolMsg(m) == m.role = "tool"
OfThisTurn(e) == e.iteration = iteration

\* the tool-result turns that follow the last assistant turn
ResultsSinceReply ==
    LET a == NearestAssistant(Len(messages) + 1)
    IN  SelectSeq(SubSeq(messages, a + 1, Len(messages)), IsToolMsg)

\* the dispatches of the current turn
TurnLog == SelectSeq(dispatch_log, OfThisTurn)

\* the calls of the current turn that are behind the for loop
CallsDone == IF pc = "tools" THEN idx - 1 ELSE Len(previous_tool_calls)

\* C6: the calls of a turn are dispatched in the order of the reply, and the
\* tool-result turns are appended one per call in that order; when the next
\* LLM call is due every call of the turn has its result.
C6_DispatchInOrder ==
    (pc = "tools" \/ (pc = "loop" /\ iteration > 0)) =>
        /\ Len(TurnLog) = CallsDone
        /\ Len(ResultsSinceReply) = CallsDone
        /\ \A k \in 1..CallsDone :
               /\ TurnLog[k].id = previous_tool_calls[k].id
               /\ TurnLog[k].name = previous_tool_calls[k].name
               /\ TurnLog[k].invoked = (previous_tool_calls[k].name \in tools_registry)
               /\ ResultsSinceReply[k].tool_call_id = previous_tool_calls[k].id

\* a turn of three calls, a replan message among their results, is complete
\* and the next LLM call is due
C6_Witness ==
    /\ pc = "loop"
    /\ LoopGuard
    /\ Len(previous_tool_calls) = 3
    /\ Len(ResultsSinceReply) = 3
    /\ \E i \in DOMAIN messages : messages[i].kind = "replan"

\* the transcript holds a tool-result turn of the given content for call id
HasToolResult(id, content) ==
    \E i \in DOMAIN messages :
        /\ messages[i].role = "tool"
        /\ messages[i].tool_call_id = id
        /\ messages[i].kind = content

\* C7: when a handler raises, the error is appended as the tool result of
\* that call and execute_task does not abort during that turn: the remaining
\* calls are dispatched and the loop goes on.
C7_HandlerErrorDoesNotAbort ==
    \A i \in DOMAIN dispatch_log :
        dispatch_log[i].content = "error" =>
            /\ HasToolResult(dispatch_log[i].id, "error")
            /\ ~(pc = "raised" /\ dispatch_log[i].iteration = iteration)

\* C8: a call whose argument string is not JSON gets an error tool result
\* bound to its id, its handler is not invoked, and execute_task does not
\* raise.
C8_MalformedArgumentsRendered ==
    \A i \in DOMAIN dispatch_log :
        ~IsJson(dispatch_log[i].arguments) =>
            /\ ~dispatch_log[i].invoked
            /\ HasToolResult(dispatch_log[i].id, "error")
            /\ pc # "raised"

\* C9: once an execution-loop LLM call has raised, execute_task has returned
\* success = false with the error text; that call is the last LLM call of the
\* task, no tool was dispatched in or after its turn, nothing was raised.
C9_TransportErrorReturns ==
    \A i \in DOMAIN llm_log :
        (llm_log[i].phase = "execution" /\ llm_log[i].outcome = "raise") =>
            /\ i = Len(llm_log)
            /\ pc = "returned"
            /\ raised = None
            /\ result.success = FALSE
            /\ result.response = "Erro ao chamar LLM"
            /\ \A k \in DOMAIN dispatch_log :
                   dispatch_log[k].iteration < llm_log[i].iteration

\* the LLM call of the second turn raised, after a first turn with tool calls
C9_Witness ==
    /\ pc = "returned"
    /\ Len(llm_log) >= 2
    /\ Last(llm_log).phase = "execution"
    /\ Last(llm_log).outcome = "raise"
    /\ Len(dispatch_log) >= 1
    /\ use_multi_model
    /\ ~skip_validation

\* C10: every result execute_task returns carries success, response,
\* iterations and actions_count.
C10_ResultCarriesFourFields ==
    pc = "returned" =>
        {"success", "response", "iterations", "actions_count"} \subseteq DOMAIN result


\* two dispatched calls have the same name and the same decoded arguments
SameCall(e, f) ==
    /\ e.name = f.name
    /\ IsJson(e.arguments)
    /\ IsJson(f.arguments)
    /\ JsonLoads(e.arguments) = JsonLoads(f.arguments)

\* the i-th dispatched call of the task is a replan trigger as the
\* specification describes it: a blocking result, or the call before it repeated
IsTrigger(i) ==
    \/ IsBlockingResult(dispatch_log[i].content)
    \/ (i > 1 /\ SameCall(dispatch_log[i], dispatch_log[i - 1]))

\* the tool result of the dispatched call e is followed in the transcript by
\* the replan instruction that names its tool
ReplanFollows(e) ==
    \E i \in 1..(Len(messages) - 1) :
        /\ messages[i].role = "tool"
        /\ messages[i].tool_call_id = e.id
        /\ messages[i + 1] = UserMsg("replan", e.name)

\* the execution-loop LLM call of the turn after the one of e, if it has been
\* made, went to the complex endpoint
NextCallComplex(e) ==
    \A k \in DOMAIN llm_log :
        (llm_log[k].phase = "execution" /\ llm_log[k].iteration = e.iteration + 1)
            => llm_log[k].model = get_complex_model_config

\* C3: every dispatched call with a blocking result, or equal to the call
\* dispatched just before it, has the replan instruction naming its tool
\* appended after its result, and the next execution-loop LLM call goes to the
\* complex endpoint.
C3_AutoReplanOnEveryTrigger ==
    \A i \in DOMAIN dispatch_log :
        IsTrigger(i) => /\ ReplanFollows(dispatch_log[i])
                        /\ NextCallComplex(dispatch_log[i])

\* the names of the tool calls of the turn before turn k, in dispatch order
IsOfTurn(k, e) == e.iteration = k
PrevTurn(k) == LET Test(e) == IsOfTurn(k - 1, e) IN SelectSeq(dispatch_log, Test)
AnyName(k, S) == \E j \in DOMAIN PrevTurn(k) : PrevTurn(k)[j].name \in S
FirstOverridden(k) ==
    LET j == CHOOSE j \in DOMAIN PrevTurn(k) :
                 /\ PrevTurn(k)[j].name \in DOMAIN tool_overrides
                 /\ \A h \in 1..(j - 1) : PrevTurn(k)[h].name \notin DOMAIN tool_overrides
    IN  PrevTurn(k)[j].name
TaggedComplex == { n \in DOMAIN tool_complexity : tool_complexity[n] = "complex" }

\* the endpoint the priority order gives turn k; tagRule tells whether
\* rule (4) applies
PriorityRoute(k, forced, tagRule) ==
    IF forced THEN ComplexEndpoint
    ELSE IF AnyName(k, COGNITIVE_TOOLS) THEN ComplexEndpoint
    ELSE IF AnyName(k, DOMAIN tool_overrides) THEN tool_overrides[FirstOverridden(k)]
    ELSE IF tagRule /\ AnyName(k, TaggedComplex) THEN ComplexEndpoint
    ELSE SimpleEndpoint

\* the flag is set for turn k exactly when a call of turn k - 1 triggered the
\* replan: one trigger forces one LLM call
ForcedOnce(c) ==
    c.forced <=> \E j \in DOMAIN PrevTurn(c.iteration) : PrevTurn(c.iteration)[j].replan

IdleAgent ==
    /\ InitAgent
    /\ ~use_multi_model
    /\ self_max_iterations = MIN_ITERATIONS
    /\ tool_overrides = CHOOSE t \in OverrideTables : TRUE
    /\ repo = BaseRepo(FALSE, {})
    /\ git_log = <<>>

WriteAlphabet == {"a", " ", NL}
WriteContents == StringsUpTo(WriteAlphabet, MaxLen)
WritePath == <<"a.txt">>

InitWrite ==
    /\ IdleAgent
    /\ fs \in {[p \in {} |-> <<>>]} \cup {[p \in {WritePath} |-> c] : c \in WriteContents}
    /\ backups = [n \in {} |-> <<>>]
    /\ clock = 0
    /\ file_op = NoFileOp
    /\ shell_op = NoShellOp

NextWrite == \E content \in WriteContents : WriteFile(WritePath, content)

SpecWrite == InitWrite /\ [][NextWrite]_vars

\* the last call was write_file on a file that existed
WroteOverExisting == file_op.tool = "write_file" /\ file_op.existed

\* the requested content starts with the existing content, trailing
\* whitespace of the existing content apart
ExtendsExisting(existing_content, content) ==
    StartsWith(content, RStrip(existing_content))

\* C11: after write_file on an existing file the previous content is a prefix
\* of the file, and when the requested content neither equals the existing
\* content nor starts with it (up to trailing whitespace) the file is
\* unchanged, no backup was written and the result is the block message
C11_ProtectedCreate ==
    WroteOverExisting =>
        /\ StartsWith(fs[file_op.path], file_op.before)
        /\ (/\ file_op.content # file_op.before
            /\ ~ExtendsExisting(file_op.before, file_op.content))
           => /\ fs[file_op.path] = file_op.before
              /\ file_op.made = {}
              /\ file_op.result \in {"blocked_similar", "blocked_different"}

\* the part of C11 that holds: write_file only ever appends to a file that
\* exists
C11_PreviousContentIsPrefix ==
    WroteOverExisting => StartsWith(fs[file_op.path], file_op.before)

\* ------------------------------------------------------------------------
\* The modifying tools on two files of the same base name
\* ------------------------------------------------------------------------
BackupPaths == {<<"a.txt">>, <<"sub", "a.txt">>}
BackupContents == {<<"a">>, <<"a", NL, "b">>, <<"b">>}

InitBackup ==
    /\ IdleAgent
    /\ fs \in [BackupPaths -> BackupContents]
    /\ backups = [n \in {} |-> <<>>]
    /\ clock = 0
    /\ file_op = NoFileOp
    /\ shell_op = NoShellOp

NextBackup ==
    \/ \E filepath \in BackupPaths, content \in BackupContents :
           \/ WriteFile(filepath, content)
           \/ ForceWriteFile(filepath, content)
           \/ UpdateFile(filepath, content)
    \/ Tick

SpecBackup == InitBackup /\ [][NextBackup]_vars

\* the last call changed a file that existed
ModifiedExisting == file_op.existed /\ fs[file_op.path] # file_op.before

\* C12: when a call that modifies an existing file returns, a backup written
\* by the call holds the contents the file had before the call, and the call
\* replaced no backup that was there before
C12_BackupBeforeMutation ==
    ModifiedExisting =>
        /\ \E name \in file_op.made : backups[name] = file_op.before
        /\ file_op.replaced = {}

\* ------------------------------------------------------------------------
\* The file tools on paths inside and outside the workspace
\* ------------------------------------------------------------------------
ContainPaths ==
    {<<"a.txt">>, <<"..", "a.txt">>, <<"/", "etc", "a.txt">>, <<BACKUP_DIR, "a.txt">>}
ContainContents == {<<"a">>, <<"b">>}

InitContain ==
    /\ IdleAgent
    /\ \E present \in SUBSET ContainPaths : fs \in [present -> ContainContents]
    /\ backups = [n \in {} |-> <<>>]
    /\ clock = 0
    /\ file_op = NoFileOp
    /\ shell_op = NoShellOp

NextContain ==
    \E filepath \in ContainPaths :
        \/ ReadFile(filepath)
        \/ \E content \in ContainContents :
               \/ WriteFile(filepath, content)
               \/ ForceWriteFile(filepath, content)

SpecContain == InitContain /\ [][NextContain]_vars

\* the last call was handed a path outside the workspace or in its backups
CalledOutOfBounds ==
    /\ file_op.tool # "none"
    /\ ResolvesOutside(file_op.path) \/ ResolvesIntoBackups(file_op.path)

\* C13: a file tool handed a path that resolves outside the workspace or into
\* its backups directory returns an error, and the file at that path is
\* neither read nor created nor changed
C13_WorkspaceContainment ==
    CalledOutOfBounds =>
        /\ file_op.result = "error"
        /\ Exists(file_op.path) = file_op.existed
        /\ file_op.existed => fs[file_op.path] = file_op.before

\* ------------------------------------------------------------------------
\* The line tools on one file of up to two lines
\* ------------------------------------------------------------------------
LinePath == <<"a.txt">>
LineFiles == {<<>>, <<"a", NL>>, <<"a", NL, "b", NL>>, <<"a", NL, "b">>}
LineContents == {<<>>, <<"c">>, <<"c", NL>>, <<"c", NL, "d">>}
LineNumbers == 0..3

InitLines ==
    /\ IdleAgent
    /\ fs \in [{LinePath} -> LineFiles]
    /\ backups = [n \in {} |-> <<>>]
    /\ clock = 0
    /\ file_op = NoFileOp
    /\ shell_op = NoShellOp

\* the edits of a batch, insertions before and replacements of lines 1 and 2,
\* and the batches of one or two edits
BatchEdits ==
    UNION {{FileEdit(s, e, c) : e \in {s - 1, s}, c \in {<<"c">>, <<"d", NL>>}} : s \in 1..2}
EditLists == {<<e>> : e \in BatchEdits} \cup {<<e1, e2>> : e1 \in BatchEdits, e2 \in BatchEdits}

\* the calls are made while the file is short
NextLines ==
    /\ Len(fs[LinePath]) <= MaxLen + 2
    /\ \E content \in LineContents, k \in LineNumbers :
           \/ InsertLines(LinePath, k, content, NoCheckpoint)
           \/ \E e \in LineNumbers : EditLines(LinePath, k, e, content, NoCheckpoint)

SpecLines == InitLines /\ [][NextLines]_vars

\* batches of edits on the same file
NextBatch ==
    /\ Len(fs[LinePath]) <= MaxLen + 2
    /\ \E edits \in EditLists, confirmed \in BOOLEAN :
           ApplyEdits(LinePath, edits, confirmed)

SpecBatch == InitLines /\ [][NextBatch]_vars

\* a line without its line end
LineText(line) == IF EndsWith(line, NL) THEN SubSeq(line, 1, Len(line) - 1) ELSE line

\* the text of the lines of a content
Texts(content) == [i \in DOMAIN SplitLines(content) |-> LineText(SplitLines(content)[i])]

\* the last call was an insert_lines that succeeded
Inserted == file_op.tool = "insert_lines" /\ file_op.result = "inserted"

\* the lines of new are those of old, but for line n which gave way to the
\* lines of content
ReplacesOnlyLine(old, new, n, content) ==
    /\ Len(Texts(new)) = Len(Texts(old)) - 1 + Len(Texts(content))
    /\ \A i \in 1..(n - 1) : Texts(new)[i] = Texts(old)[i]
    /\ \A i \in 1..Len(Texts(content)) : Texts(new)[n - 1 + i] = Texts(content)[i]
    /\ \A i \in (n + 1)..Len(Texts(old)) :
           Texts(new)[i - 1 + Len(Texts(content))] = Texts(old)[i]

\* C14: a successful insert_lines(path, k, C) on a file of N lines leaves
\* N + lines(C) lines, the original lines 1..k first and unchanged, then the
\* lines of C, then the original lines k+1..N unchanged; and edit_lines(path,
\* k+1, k+1, Y) on the file it left replaces only the first inserted line
C14_InsertKeepsEveryLine ==
    Inserted =>
        LET old == Texts(file_op.before)
            new == Texts(fs[file_op.path])
            ins == Texts(file_op.content)
            k == file_op.args[1]
        IN  /\ Len(new) = Len(old) + Len(ins)
            /\ \A i \in 1..k : new[i] = old[i]
            /\ \A i \in 1..Len(ins) : new[k + i] = ins[i]
            /\ \A i \in (k + 1)..Len(old) : new[i + Len(ins)] = old[i]
            /\ \A Y \in LineContents :
                   (Len(ins) > 0 /\ EditAccepted(fs[file_op.path], k + 1, k + 1))
                   => ReplacesOnlyLine(fs[file_op.path],
                                       EditedContent(fs[file_op.path], k + 1, k + 1, Y),
                                       k + 1, Y)

\* the last call was an edit_lines that was accepted
Edited == file_op.tool = "edit_lines" /\ file_op.result = "edited"

\* C15: after an accepted edit_lines(path, s, e, X), the call
\* edit_lines(path, s, s + lines(X) - 1, X) leaves the file as it is
C15_EditLinesIdempotent ==
    Edited =>
        LET s == file_op.args[1]
            X == file_op.content
            e2 == s + Len(SplitLines(X)) - 1
            content == fs[file_op.path]
        IN  EditAccepted(content, s, e2) => EditedContent(content, s, e2, X) = content

\* the last call was an apply_edits that wrote the file
Applied == file_op.tool = "apply_edits" /\ file_op.result = "applied"

\* the lines an edit replaces: none for a pure insertion
Replaced(edit) == edit.start_line..edit.end_line

\* the edits replace disjoint ranges, none a reversed range, no two of them
\* insertions at the same line
NonOverlapping(edits) ==
    /\ \A i \in DOMAIN edits : edits[i].end_line >= edits[i].start_line - 1
    /\ \A i, j \in DOMAIN edits :
           i # j => /\ Replaced(edits[i]) \cap Replaced(edits[j]) = {}
                    /\ ~(/\ Replaced(edits[i]) = {}
                         /\ Replaced(edits[j]) = {}
                         /\ edits[i].start_line = edits[j].start_line)

\* the orders in which a list can be submitted
Orders(seq) ==
    {[i \in DOMAIN seq |-> seq[f[i]]] :
        f \in {g \in [DOMAIN seq -> DOMAIN seq] : \A i, j \in DOMAIN seq : g[i] = g[j] => i = j}}

\* C16: for pairwise non-overlapping edits that all validate, apply_edits
\* gives the same file for every order of the submitted list
C16_ApplyEditsOrderIndependent ==
    (Applied /\ NonOverlapping(file_op.args)) =>
        \A other \in Orders(file_op.args) :
            AppliedContent(file_op.before, other) = fs[file_op.path]

\* ------------------------------------------------------------------------
\* Tasks in workspaces of every kind: no repository, a clean or a dirty tree
\* on the base branch, a branch of the new session's name left behind, HEAD
\* on a session branch
\* ------------------------------------------------------------------------
NoRepo == Repo(FALSE, "-", FALSE, {}, [b \in BranchNames |-> NoCommit], 0)

InitialRepos ==
    {NoRepo, BaseRepo(FALSE, {}), BaseRepo(TRUE, {}), BaseRepo(FALSE, {NewSessionBranch}),
     [BaseRepo(FALSE, {OldSessionBranch}) EXCEPT !.head = OldSessionBranch]}

InitSession ==
    /\ InitAgent
    /\ self_max_iterations = MIN_ITERATIONS
    /\ tool_overrides = CHOOSE t \in OverrideTables : TRUE
    /\ repo \in InitialRepos
    /\ git_log = <<>>
    /\ InitFiles

SessionVocab == {<<"list_files", "{a:1,b:2}">>}
SessionOutcomes == [name \in ToolNames |-> {"ok"}]

NextSession ==
    \/ \E arg \in {NoInt, <<0>>}, sp \in BOOLEAN, sv \in BOOLEAN : ExecuteTask(arg, sp, sv)
    \/ \E outcome \in {"fail", "plan"} : PhasePlanning(outcome)
    \/ LlmRaises
    \/ LlmFinalAnswer
    \/ LlmReplyWithTools(SessionVocab)
    \/ Dispatch(SessionOutcomes)
    \/ IterationLimit
    \/ \E reply \in ValidationReplies : PhaseValidation(reply)

SpecSession == InitSession /\ [][NextSession]_vars

\* a step that touches the session: the flag, the repository or the record of
\* the git operations changes
SessionStep ==
    git_session_started' # git_session_started \/ repo' # repo \/ git_log' # git_log

\* a step in which execute_task is called and its arguments pass the checks
TaskAccepted ==
    pc \in {"idle", "returned", "raised"} /\ pc' \in {"planning", "loop"}

\* C17 (as stated): git_session_started never goes back to false, and the
\* session is touched in the first execute_task call of the agent only
C17_BootstrapInFirstCall ==
    [][/\ git_session_started => git_session_started'
       /\ SessionStep => (~first_call_done /\ git_session_started')]_vars

\* C17 (amended): git_session_started never goes back to false; once it is
\* set no later call touches the session or creates a branch; every call
\* whose arguments pass the checks leaves it set, and only such a call
\* touches the session: the bootstrap runs in the first call that passes the
\* checks
C17_BootstrapOnce ==
    [][/\ git_session_started => (git_session_started' /\ ~SessionStep)
       /\ TaskAccepted => git_session_started'
       /\ SessionStep => TaskAccepted]_vars

\* a call was rejected for its arguments after an earlier call had run the
\* bootstrap and git_session_start
C17_Witness ==
    /\ pc = "raised"
    /\ raised = "ValueError"
    /\ git_session_started
    /\ Len(git_log) = 1

\* the bootstrap called git_session_start in a repository whose HEAD was not
\* on a session branch
BootstrappedOffSession(entry) ==
    /\ entry.op = "session_start"
    /\ entry.before.is_repo
    /\ ~IsSessionBranch(entry.before.head)

\* C18: after the bootstrap in a git repository whose current branch is not a
\* session branch, HEAD is on a session/ branch that did not exist before, and
\* git_session_branch is that branch, whatever the state of the working tree
C18_BootstrapCreatesSessionBranch ==
    \A i \in DOMAIN git_log :
        BootstrappedOffSession(git_log[i]) =>
            /\ IsSessionBranch(git_log[i].after.head)
            /\ git_log[i].after.head \notin git_log[i].before.branches
            /\ git_session_branch = git_log[i].after.head

\* C19: when the workspace is a git repository, the result execute_task
\* returns has a git_review section, on every return path
C19_GitReviewOnEveryReturn ==
    (pc = "returned" /\ repo.is_repo) => "git_review" \in DOMAIN result

\* ------------------------------------------------------------------------
\* The git tools and an edit tool with checkpoints, in a clean repository on
\* the base branch
\* ------------------------------------------------------------------------
InitGit ==
    /\ IdleAgent
    /\ fs = [p \in {LinePath} |-> <<"a", NL>>]
    /\ backups = [n \in {} |-> <<>>]
    /\ clock = 0
    /\ file_op = NoFileOp
    /\ shell_op = NoShellOp

NextGit ==
    \/ GitSessionStart
    \/ /\ Len(fs[LinePath]) <= MaxLen + 2
       /\ \E checkpoint \in {NoCheckpoint, TrueCheckpoint} :
              /\ Truth(checkpoint) => repo.commits < MaxCommits
              /\ InsertLines(LinePath, 0, <<"c">>, checkpoint)
    \/ /\ repo.commits < MaxCommits
       /\ GitCheckpoint
    \/ \E name \in BranchNames, create_if_missing \in BOOLEAN :
           GitBranchSwitch(name, create_if_missing)
    \/ /\ repo.stashes < MaxStashes
       /\ GitStashSave
    \/ \E n \in 0..MaxCommits, hard \in BOOLEAN :
           /\ ~hard => repo.stashes < MaxStashes
           /\ GitRollback(<<n>>, hard)

SpecGit == InitGit /\ [][NextGit]_vars

\* git_session_start succeeded: it left HEAD on a session branch it created
SessionStarted(entry) ==
    /\ entry.op = "session_start"
    /\ IsSessionBranch(entry.after.head)
    /\ entry.after.head \notin entry.before.branches

\* C20: after git_session_start succeeded, every checkpoint commit goes to the
\* session branch, and the ref of the branch the session started from never
\* changes
C20_SessionBranchIsolation ==
    \A i \in DOMAIN git_log :
        SessionStarted(git_log[i]) =>
            /\ \A j \in (i + 1)..Len(git_log) :
                   git_log[j].op = "checkpoint"
                   => git_log[j].before.head = git_log[i].after.head
            /\ repo.tip[git_log[i].before.head] = git_log[i].before.tip[git_log[i].before.head]

\* ------------------------------------------------------------------------
\* Specification of the shell tools: run_command and run_script called on
\* commands made of up to MaxWords words
\* ------------------------------------------------------------------------
Nohup == <<"n", "o", "h", "u", "p", " ">>
Uvicorn == <<"u", "v", "i", "c", "o", "r", "n", " ", "a", "p", "p", ":", "a", "p", "p", " ">>
PhpServer == <<"p", "h", "p", " ", "-", "S", " ", "l", "o", "c", "a", "l", "h", "o", "s", "t", ":", "8", "0", "0", "0", " ">>
Ampersand == <<"&", " ">>
EchoPid == <<"e", "c", "h", "o", " ", "$", "!", " ">>
EchoPidFile == <<"e", "c", "h", "o", " ", "$", "!", " ", ">", " ", "s", "e", "r", "v", "e", "r", ".", "p", "i", "d", " ">>
RmRf == <<"r", "m", " ", "-", "r", "f", " ", "/", " ">>
Ls == <<"l", "s", " ">>
ShellWords ==
    {Nohup, Uvicorn, PhpServer, Ampersand, EchoPid, EchoPidFile, RmRf, Ls}

RECURSIVE Concat(_)
Concat(words) == IF words = <<>> THEN <<>> ELSE Head(words) \o Concat(Tail(words))

ShellCommands ==
    { Concat(words) : words \in UNION { [1..n -> ShellWords] : n \in 1..MaxWords } }

ShellNames == {"bash", "fish"}

\* the command the next call is made with
InitShell ==
    /\ IdleAgent
    /\ fs = [p \in {} |-> <<>>]
    /\ backups = [n \in {} |-> <<>>]
    /\ clock = 0
    /\ file_op = NoFileOp
    /\ shell_op \in { [NoShellOp EXCEPT !.command = command] : command \in ShellCommands }

NextShell ==
    \/ \E proc \in ProcessOutcomes :
           /\ shell_op.tool = "none"
           /\ RunCommand(shell_op.command, proc)
    \/ \E shell \in ShellNames, proc \in ProcessOutcomes :
           /\ shell_op.tool = "none"
           /\ RunScript(shell_op.command, shell, proc)

SpecShell == InitShell /\ [][NextShell]_vars

\* the input matches an entry of the tool's denylist
MatchesDenylist(op) ==
    \E d \in (IF op.tool = "run_command" THEN dangerous_commands ELSE dangerous_patterns) :
        Contains(op.command, d)

\* the input matches an entry of the tool's list of probable servers
MatchesServerPattern(op) ==
    \E p \in (IF op.tool = "run_command" THEN command_blocking_commands
              ELSE blocking_commands) :
        Contains(op.command, p)

\* nohup, a background marker and the capture of the PID into a .pid file
HasBackgroundForm(op) ==
    has_nohup(op.command) /\ has_background(op.command) /\ has_pid_save(op.command)

ShellRejections == {"dangerous", "warning", "shell_not_allowed"}

\* C21: a call of run_command or run_script whose input matches the denylist,
\* or matches a probable-server pattern without nohup, '&' and the PID capture
\* together, returns a rejection and starts no child process; an input that
\* matches a server pattern runs only with all three
C21_ShellRejectionSpawnsNothing ==
    shell_op.tool # "none" =>
        /\ (MatchesDenylist(shell_op)
            \/ (MatchesServerPattern(shell_op) /\ ~HasBackgroundForm(shell_op)))
           => (shell_op.spawned = 0 /\ shell_op.result \in ShellRejections)
        /\ (MatchesServerPattern(shell_op) /\ shell_op.spawned > 0)
           => HasBackgroundForm(shell_op)

\* ------------------------------------------------------------------------
\* Planning and validation phases
\* ------------------------------------------------------------------------
\* the positions of llm_log that hold a call of the phase
PhaseCalls(phase) == {i \in DOMAIN llm_log : llm_log[i].phase = phase}

\* execute_task got past the check of its arguments
TaskRunning == pc \notin {"idle"} /\ raised # "ValueError"

\* the roles and contents of the transcript
Shape(transcript) == [i \in DOMAIN transcript |-> <<transcript[i].role, transcript[i].kind>>]

\* C22: a task makes a planning call iff use_multi_model is set and
\* skip_planning is false; it is one call, to the complex endpoint, without
\* tools, before every call of the execution loop; the loop starts from
\* [planning directive, task, plan, execute instruction] when the call came
\* back and from [system directive, task] when it raised, and in both cases
\* the loop runs
C22_PlanningPhase ==
    /\ (TaskRunning /\ pc # "planning")
           => (PhaseCalls("planning") # {} <=> (use_multi_model /\ ~skip_planning))
    /\ pc = "planning" => (use_multi_model /\ ~skip_planning /\ llm_log = <<>>)
    /\ PhaseCalls("planning") \subseteq {1}
    /\ \A i \in PhaseCalls("planning") :
           llm_log[i].model = ComplexEndpoint /\ ~llm_log[i].tools
    /\ (pc = "loop" /\ iteration = 0) =>
           Shape(messages) =
               IF PhaseCalls("planning") # {} /\ llm_log[1].outcome = "reply"
               THEN << <<"system", "planning_prompt">>, <<"user", "task">>,
                       <<"assistant", "plan">>, <<"user", "execute_plan">> >>
               ELSE << <<"system", "system_prompt">>, <<"user", "task">> >>
    /\ (PhaseCalls("planning") # {} /\ llm_log[1].outcome = "raise") =>
           /\ pc \in {"loop", "tools"} \/ PhaseCalls("execution") # {}
           /\ raised # "ValueError"

\* the planning call raised and the execution loop has made a call
C22_Witness ==
    /\ Len(llm_log) >= 2
    /\ llm_log[1].phase = "planning"
    /\ llm_log[1].outcome = "raise"
    /\ llm_log[2].phase = "execution"

\* the last turn of the transcript is an assistant reply without tool calls
EndedWithFinalAnswer ==
    /\ messages # <<>>
    /\ Last(messages).role = "assistant"
    /\ Last(messages).kind = "reply"
    /\ Last(messages).tool_calls = <<>>

PolicyPath == <<"a.txt">>
PlainContent == <<"x", " ", "=", " ", "1", NL>>
OtherContent == <<"y", " ", "=", " ", "2", NL>>
NoteContent ==
    <<"p", "o", "d", "e", " ", "t", "r", "a", "v", "a", "r", " ", "o", " ", "p", "r", "o", "c", "e", "s", "s", "o", NL>>

PolicyFiles ==
    { [p \in {} |-> <<>>], [p \in {PolicyPath} |-> PlainContent],
      [p \in {PolicyPath} |-> NoteContent] }

PolicyCalls ==
    { FileCall("write_file", PolicyPath, OtherContent),
      ShellCall("run_command", RmRf), ShellCall("run_command", Uvicorn),
      ShellCall("run_command", Ls),
      ShellCall("run_script", RmRf), ShellCall("run_script", Uvicorn),
      ShellCall("run_script", Ls) }

PolicyVocab == { <<call.tool, "{a:1,b:2}">> : call \in PolicyCalls }

EditorCalls ==
    { FileCall("write_file", PolicyPath, OtherContent),
      FileCall("force_write_file", PolicyPath, OtherContent),
      FileCall("update_file", PolicyPath, OtherContent),
      FileCall("read_file", PolicyPath, <<>>) }

EditorVocab == { <<call.tool, "{a:1,b:2}">> : call \in EditorCalls }

InitPolicy ==
    /\ IdleAgent
    /\ fs \in PolicyFiles
    /\ backups = [n \in {} |-> <<>>]
    /\ clock = 0
    /\ file_op = NoFileOp
    /\ shell_op = NoShellOp

NextPolicy ==
    \/ ExecuteTask(NoInt, TRUE, TRUE)
    \/ LlmFinalAnswer
    \/ LlmReplyWithTools(PolicyVocab)
    \/ \E call \in PolicyCalls, proc \in {"exit", "timeout"} : DispatchHandler(call, proc)
    \/ IterationLimit

SpecPolicy == InitPolicy /\ [][NextPolicy]_vars

\* the same tasks, the LLM calling the tools of the file editor
NextEditor ==
    \/ ExecuteTask(NoInt, TRUE, TRUE)
    \/ LlmFinalAnswer
    \/ LlmReplyWithTools(EditorVocab)
    \/ \E call \in EditorCalls : DispatchHandler(call, "exit")
    \/ IterationLimit

SpecEditor == InitPolicy /\ [][NextEditor]_vars

\* the call dispatched last was turned down by a tool policy: write_file on
\* a file that exists with other content, a shell input on the denylist, a
\* probable server without the background form
IsPolicyRejection(e) ==
    \/ /\ e.name = "write_file"
       /\ file_op.tool = "write_file"
       /\ file_op.result \in {"blocked_similar", "blocked_different"}
    \/ /\ e.name \in {"run_command", "run_script"}
       /\ shell_op.tool = e.name
       /\ shell_op.result \in {"dangerous", "warning"}

\* no LLM call was made since the call e was dispatched
StillInTurn(e) == pc \in {"tools", "loop"} /\ e.iteration = iteration

\* C24: every call turned down by a tool policy, the first of its kind
\* included, is followed by the replan instruction and sets
\* force_complex_model
C24_RejectionsTriggerReplan ==
    (dispatch_log # <<>> /\ IsPolicyRejection(Last(dispatch_log))) =>
        /\ Last(dispatch_log).replan
        /\ ReplanFollows(Last(dispatch_log))
        /\ StillInTurn(Last(dispatch_log)) => force_complex_model

\* the tools of the file editor that the specification models
EditorTools == {"write_file", "force_write_file", "update_file", "read_file"}

\* the call dispatched last differs from the one dispatched before it
NotRepeated ==
    \/ Len(dispatch_log) = 1
    \/ /\ Len(dispatch_log) > 1
       /\ ~SameCall(dispatch_log[Len(dispatch_log)], dispatch_log[Len(dispatch_log) - 1])

\* C25: among the tools of the file editor only write_file on a file that
\* exists with other content gives a blocking result: a call of any of them
\* with another outcome, not a repetition of the call before it, injects no
\* replan, does not count as a block and does not set force_complex_model
C25_OnlyWriteFileBlocks ==
    (/\ dispatch_log # <<>>
     /\ Last(dispatch_log).name \in EditorTools
     /\ file_op.tool = Last(dispatch_log).name
     /\ ~IsPolicyRejection(Last(dispatch_log))
     /\ NotRepeated) =>
        /\ ~Last(dispatch_log).replan
        /\ ~ReplanFollows(Last(dispatch_log))
        /\ StillInTurn(Last(dispatch_log)) => (blocking_count = 0)

\* C26: every dispatched call whose signature equals the signature of the call
\* dispatched just before it in the task triggers the replan, a third
\* identical call in a row included.
C26_EveryRepeatTriggers ==
    \A i \in DOMAIN dispatch_log :
        (i > 1 /\ SameCall(dispatch_log[i], dispatch_log[i - 1]))
            => dispatch_log[i].replan

\* Gating specification: tasks that ask for planning and validation or skip
\* them, on agents with use_multi_model set or not; the LLM calls tools of
\* every routing class.
NextGating ==
    \/ \E sp \in BOOLEAN, sv \in BOOLEAN : ExecuteTask(NoInt, sp, sv)
    \/ \E outcome \in {"fail", "plan", "empty"} : PhasePlanning(outcome)
    \/ LlmRaises
    \/ LlmFinalAnswer
    \/ LlmReplyWithTools(RoutingVocab)
    \/ Dispatch(RoutingOutcomes)
    \/ IterationLimit
    \/ \E reply \in ValidationReplies \cup {{"fail"}} : PhaseValidation(reply)

SpecGating == Init /\ [][NextGating]_vars

\* the endpoint of turn k when the complexity tags play no part: the force
\* flag, then the first override, then the simple endpoint
UntaggedRoute(k, forced) ==
    IF forced THEN ComplexEndpoint
    ELSE IF AnyName(k, DOMAIN tool_overrides) THEN tool_overrides[FirstOverridden(k)]
    ELSE SimpleEndpoint

\* C27: on an agent with use_multi_model false no planning call and no
\* validation call is made, and every execution-loop call goes to the endpoint
\* chosen without regard to the complexity tags of the previous turn's tools,
\* the cognitive tools included.
C27_MultiModelGatesAll ==
    ~use_multi_model =>
        \A i \in DOMAIN llm_log :
            /\ llm_log[i].phase = "execution"
            /\ llm_log[i].model = UntaggedRoute(llm_log[i].iteration, llm_log[i].forced)

\* ------------------------------------------------------------------------
\* the client of each LLM call
\* ------------------------------------------------------------------------
\* Client specification: provider configurations whose simple and complex
\* endpoints and whose write_file override take their model name from two
\* names and their base URL from none or two URLs, so that endpoints may
\* share a name; tasks with planning and validation or without, the LLM
\* calling tools of every routing class.
ModelNames == {"qwen3-coder", "gpt-4o"}
BaseUrls == {None, "http://a/v1", "http://b/v1"}
ProviderConfigs ==
    { [e \in {"M1", "M2", "M3", "M4"} |->
          CASE e = "M1" -> ModelConfig(n1, b1, None)
            [] e = "M2" -> ModelConfig(n2, b2, "sk-2")
            [] e = "M3" -> ModelConfig("qwen3-coder", b3, "sk-3")
            [] e = "M4" -> ModelConfig("deepseek-r1", "http://b/v1", "sk-4")] :
      n1 \in ModelNames, n2 \in ModelNames, b1 \in BaseUrls, b2 \in BaseUrls,
      b3 \in BaseUrls \ {None} }

InitClients ==
    /\ InitAgentOf(ProviderConfigs)
    /\ use_multi_model
    /\ self_max_iterations = MaxIter
    /\ DOMAIN tool_overrides # {}
    /\ repo = BaseRepo(FALSE, {})
    /\ git_log = <<>>
    /\ InitFiles

NextClients ==
    \/ \E sp \in BOOLEAN, sv \in BOOLEAN : ExecuteTask(NoInt, sp, sv)
    \/ \E outcome \in {"fail", "plan", "empty"} : PhasePlanning(outcome)
    \/ LlmRaises
    \/ LlmFinalAnswer
    \/ LlmReplyWithTools(RoutingVocab)
    \/ Dispatch(RoutingOutcomes)
    \/ IterationLimit
    \/ \E reply \in ValidationReplies \cup {{"fail"}} : PhaseValidation(reply)

SpecClients == InitClients /\ [][NextClients]_vars

\* the request c went where the endpoint E says: through a direct client on
\* E's base URL with E's credential when E has a base URL, through the
\* provider abstraction otherwise, under E's model name
SentTo(c, E) ==
    /\ c.model = E.name
    /\ IF E.api_base # None
       THEN /\ c.via = "client"
            /\ c.base_url = E.api_base
            /\ c.api_key = OpenAIClient(E).api_key
       ELSE /\ c.via = "litellm"
            /\ c.api_key = E.api_key

\* C28: every LLM call (planning, execution, validation) is sent to the
\* endpoint the router selected for it, also when two endpoints share a
\* model name and differ in base URL.
C28_CallsReachSelectedEndpoint ==
    \A i \in DOMAIN llm_log :
        SentTo(llm_log[i].client, model_provider_config[llm_log[i].model])

\* ------------------------------------------------------------------------
\* the line ranges edit_lines accepts, and what an accepted call leaves
\* ------------------------------------------------------------------------
\* the last call was an edit_lines on a file that exists
EditCalled == file_op.tool = "edit_lines" /\ file_op.existed

\* C29: edit_lines on a file of N lines is accepted only when start >= 1,
\* end >= 1 and either both are at most N or start is N + 1; every other
\* call is rejected and leaves the file as it was.
C29_EditLinesAcceptedRanges ==
    EditCalled =>
        LET N == Len(SplitLines(file_op.before))
            s == file_op.args[1]
            e == file_op.args[2]
        IN  IF s >= 1 /\ e >= 1 /\ ((s <= N /\ e <= N) \/ s = N + 1)
            THEN TRUE
            ELSE /\ file_op.result = "failed"
                 /\ fs[file_op.path] = file_op.before

\* the original lines first..last that exist in a file of N lines
LinesWithin(first, last, N) == { i \in 1..N : first <= i /\ i <= last }

\* old with its lines s..e replaced by the lines x: the lines before s, then
\* x, then the lines after the range
ReplacedRange(old, s, e, x) ==
    SubSeq(old, 1, s - 1) \o x
        \o SubSeq(old, IF e + 1 > s THEN e + 1 ELSE s, Len(old))

\* C30: after a successful edit_lines(path, s, e, X) on a file of N lines the
\* file holds the original lines before s, then the lines of X, then the
\* original lines after the range, each once and in order, and so
\* N - (lines of the range) + lines(X) lines; also when s > e.
C30_EditReplacesExactlyRange ==
    Edited =>
        LET old == Texts(file_op.before)
            new == Texts(fs[file_op.path])
            x == Texts(file_op.content)
            s == file_op.args[1]
            e == file_op.args[2]
        IN  /\ new = ReplacedRange(old, s, e, x)
            /\ Len(new) = Len(old) - Cardinality(LinesWithin(s, e, Len(old))) + Len(x)

\* ------------------------------------------------------------------------
\* One call of an editor tool on one file, absent or holding any short text
\* ------------------------------------------------------------------------
EditAlphabet == {"a", "b", NL}
EditFiles == StringsUpTo(EditAlphabet, MaxLen + 2)

InitEdits ==
    /\ IdleAgent
    /\ fs \in {[p \in {} |-> <<>>]} \cup [{LinePath} -> EditFiles]
    /\ backups = [n \in {} |-> <<>>]
    /\ clock = 0
    /\ file_op = NoFileOp
    /\ shell_op = NoShellOp

\* the optional line numbers and the index lists of a delete_lines call:
\* absent, empty, in any order, with a duplicate, out of range
OptionalLines == {NoInt} \cup { <<n>> : n \in LineNumbers }
IndexLists ==
    {NoList, << <<>> >>, << <<0>> >>, << <<1>> >>, << <<0, 1>> >>, << <<1, 0>> >>,
     << <<1, 1>> >>, << <<0, 1, 0>> >>, << <<2>> >>, << <<0, 2>> >>, << <<0 - 1>> >>}

\* one call on the file as it was found
NextEdits ==
    /\ file_op.tool = "none"
    /\ \/ \E content \in LineContents, k \in LineNumbers :
              \/ InsertLines(LinePath, k, content, NoCheckpoint)
              \/ \E e \in LineNumbers : EditLines(LinePath, k, e, content, NoCheckpoint)
       \/ \E s \in OptionalLines, e \in OptionalLines, l \in IndexLists :
              DeleteLines(LinePath, s, e, l, NoCheckpoint)
       \/ \E content \in LineContents :
              \/ ForceWriteFile(LinePath, content)
              \/ UpdateFile(LinePath, content)
       \/ \E edits \in EditLists : ApplyEdits(LinePath, edits, TRUE)

SpecEdits == InitEdits /\ [][NextEdits]_vars

\* a line number outside 1..N+1, the bounds edit_lines and apply_edits check
BeyondAppend(n, N) == n < 1 \/ n > N + 1

\* the last call was one that has to fail validation: a line number out of
\* range, delete_lines with both or neither of range and index list,
\* force_write_file or update_file on a missing file, a batch with an edit out
\* of range
FailsValidation ==
    LET N == Len(SplitLines(file_op.before))
    IN  CASE file_op.tool = "edit_lines" ->
                 /\ file_op.existed
                 /\ BeyondAppend(file_op.args[1], N) \/ BeyondAppend(file_op.args[2], N)
          [] file_op.tool = "insert_lines" ->
                 /\ file_op.existed
                 /\ file_op.args[1] < 0 \/ file_op.args[1] > N
          [] file_op.tool = "delete_lines" ->
                 LET s == file_op.args[1]
                     e == file_op.args[2]
                     l == file_op.args[3]
                 IN  \/ s = NoInt /\ e = NoInt /\ l = NoList
                     \/ (s # NoInt \/ e # NoInt) /\ l # NoList
                     \/ /\ file_op.existed
                        /\ l = NoList /\ s # NoInt /\ e # NoInt
                        /\ s[1] < 1 \/ e[1] < 1 \/ s[1] > N \/ e[1] > N
                     \/ /\ file_op.existed
                        /\ l # NoList /\ s = NoInt /\ e = NoInt
                        /\ \E i \in DOMAIN l[1] : l[1][i] < 0 \/ l[1][i] >= N
          [] file_op.tool \in {"force_write_file", "update_file"} -> ~file_op.existed
          [] file_op.tool = "apply_edits" ->
                 \E i \in DOMAIN file_op.args :
                     \/ BeyondAppend(file_op.args[i].start_line, N)
                     \/ BeyondAppend(file_op.args[i].end_line, N)
          [] OTHER -> FALSE

\* the results that report a failure
FailureResults == {"failed", "missing"}

\* C31: an editor call that fails validation returns a failure result, leaves
\* the file as it was (absent if it was absent) and writes no backup.
C31_FailedCallChangesNothing ==
    FailsValidation =>
        /\ file_op.result \in FailureResults
        /\ Exists(file_op.path) = file_op.existed
        /\ file_op.existed => fs[file_op.path] = file_op.before
        /\ file_op.made = {}

\* a batch of two edits, the first in range and the second not, was refused
\* on a file of two lines
C31_Witness ==
    /\ file_op.tool = "apply_edits"
    /\ FailsValidation
    /\ Len(file_op.args) = 2
    /\ Len(SplitLines(file_op.before)) = 2
    /\ ~BeyondAppend(file_op.args[1].start_line, 2)
    /\ ~BeyondAppend(file_op.args[1].end_line, 2)
    /\ file_op.result = "failed"

\* the last call was a delete_lines that removed lines
Deleted == file_op.tool = "delete_lines" /\ file_op.result = "deleted"

\* the elements of lines whose 0-indexed position is not in positions, in
\* their order
RECURSIVE Without(_, _, _)
Without(lines, positions, i) ==
    IF i > Len(lines) THEN <<>>
    ELSE (IF (i - 1) \in positions THEN <<>> ELSE <<lines[i]>>)
             \o Without(lines, positions, i + 1)

\* C32: an accepted delete_lines leaves the original lines but those at the
\* listed 0-indexed positions, whatever the order of the list and its
\* duplicates, or but the lines s..e of the range form; a call with both
\* forms is rejected.
C32_DeleteRemovesExactlyListed ==
    file_op.tool = "delete_lines" =>
        LET old == SplitLines(file_op.before)
            s == file_op.args[1]
            e == file_op.args[2]
            l == file_op.args[3]
        IN  /\ ((s # NoInt \/ e # NoInt) /\ l # NoList) => file_op.result = "failed"
            /\ (Deleted /\ l # NoList) =>
                   SplitLines(fs[file_op.path])
                       = Without(old, { l[1][i] : i \in DOMAIN l[1] }, 1)
            /\ (Deleted /\ l = NoList) =>
                   SplitLines(fs[file_op.path])
                       = SubSeq(old, 1, s[1] - 1) \o SubSeq(old, e[1] + 1, Len(old))

\* a list out of order and with a duplicate was accepted on a file of three
\* lines or more
C32_Witness ==
    /\ Deleted
    /\ file_op.args[3] = << <<0, 1, 0>> >>
    /\ Len(SplitLines(file_op.before)) >= 3

\* ------------------------------------------------------------------------
\* The edit tools called with a checkpoint argument in a git workspace
\* ------------------------------------------------------------------------
CheckpointFiles == {<<"a", NL>>, <<"a", NL, "a", NL>>}
Checkpoints == {NoCheckpoint, TrueCheckpoint, TextCheckpoint(<<>>), TextCheckpoint(<<"m">>)}
SearchTexts == {<<"a">>, <<"z">>, <<"a", NL>>}

InitCheckpoint ==
    /\ IdleAgent
    /\ fs \in [{LinePath} -> CheckpointFiles]
    /\ backups = [n \in {} |-> <<>>]
    /\ clock = 0
    /\ file_op = NoFileOp
    /\ shell_op = NoShellOp

\* calls in any order on the one file, while it stays short and the
\* repository has room for the commit a call may make
NextCheckpoint ==
    /\ Len(fs[LinePath]) <= MaxLen + 2
    /\ \E checkpoint \in Checkpoints :
           /\ Truth(checkpoint) => repo.commits < MaxCommits
           /\ \/ \E search \in SearchTexts, replace \in {<<"b">>, <<>>} :
                     SearchReplace(LinePath, search, replace, checkpoint)
              \/ \E k \in {0, 3} : InsertLines(LinePath, k, <<"c">>, checkpoint)
              \/ \E k \in {1, 3} : EditLines(LinePath, k, k, <<"c">>, checkpoint)
              \/ \E k \in {1, 3} : DeleteLines(LinePath, <<k>>, <<k>>, NoList, checkpoint)

SpecCheckpoint == InitCheckpoint /\ [][NextCheckpoint]_vars

\* the call that file_op keeps wrote the file
WroteFile(op) == op.result \in {"replaced", "edited", "inserted", "deleted"}

\* a checkpoint was asked for: the boolean True, or a string, the empty one
\* standing for True
CheckpointRequested(op) == op.checkpoint.kind \in {"true", "str"}

\* the message asked for: the string when it is not empty, else the
\* generated one
RequestedMessage(op) ==
    IF op.checkpoint.kind = "str" /\ op.checkpoint.text # <<>>
    THEN op.checkpoint.text
    ELSE AutoMessage(op.tool, op.path)

\* C33: a call of an edit tool makes a checkpoint commit iff it wrote the file
\* and a checkpoint was requested, as True, as the empty string or as a
\* message; the commit carries the message given, or the generated one for
\* True and for the empty string.
C33_CheckpointIffWritten ==
    [][ LET committed == Len(git_log') = Len(git_log) + 1
        IN  /\ committed <=> (WroteFile(file_op') /\ CheckpointRequested(file_op'))
            /\ committed =>
                   git_log'[Len(git_log')].message = RequestedMessage(file_op')
      ]_vars

\* C33, for the calls that wrote the file and whose checkpoint argument is
\* not the empty string
C33_WrittenIsCommitted ==
    [][ (WroteFile(file_op') /\ file_op'.checkpoint # TextCheckpoint(<<>>)) =>
            LET committed == Len(git_log') = Len(git_log) + 1
            IN  /\ committed <=> CheckpointRequested(file_op')
                /\ committed =>
                       git_log'[Len(git_log')].message = RequestedMessage(file_op')
      ]_vars

\* C33, for the calls that were refused: no commit
C33_RefusedIsNotCommitted ==
    [][ file_op'.result \in {"failed", "error"} => git_log' = git_log ]_vars

\* the last call was a search_replace on a file that was there
Searched == file_op.tool = "search_replace" /\ file_op.existed

\* C34: search_replace returns the success text only when it rewrote the
\* file: with the search text in the file every occurrence is replaced and a
\* backup made; without it the file is as it was and the text returned is not
\* the success text.
C34_SuccessOnlyWhenRewritten ==
    Searched =>
        LET search == file_op.args[1]
        IN  IF Contains(file_op.before, search)
            THEN /\ fs[file_op.path] = StrReplace(file_op.before, search, file_op.content)
                 /\ file_op.made # {}
                 /\ search_replace_text(file_op) = "success"
            ELSE /\ fs[file_op.path] = file_op.before
                 /\ search_replace_text(file_op) # "success"

\* C34, for the calls whose search text is in the file
C34_FoundIsReplaced ==
    (Searched /\ Contains(file_op.before, file_op.args[1])) =>
        /\ fs[file_op.path] = StrReplace(file_op.before, file_op.args[1], file_op.content)
        /\ file_op.made # {}
        /\ search_replace_text(file_op) = "success"

\* ------------------------------------------------------------------------
\* The place of the tool results in the transcript
\* ------------------------------------------------------------------------
\* the entries that follow the assistant turn at position i, as many as it
\* has tool calls and the transcript holds so far
ResultSlots(i) ==
    { k \in (i + 1)..(i + Len(messages[i].tool_calls)) : k <= Len(messages) }

\* the assistant turns that carry tool calls
CallingTurns ==
    { i \in DOMAIN messages :
          messages[i].role = "assistant" /\ messages[i].tool_calls # <<>> }

C35_FirstResultFollowsTurn ==
    \A i \in CallingTurns :
        i < Len(messages) => messages[i + 1].role = "tool"

\* ------------------------------------------------------------------------
\* tools/__init__.py: get_all_tools, and the call of a bound handler
\* ------------------------------------------------------------------------
\* the formal parameters of three handlers: an editor tool, a shell tool and
\* a cognitive tool that takes no context; Required are those without default
HandlerParams ==
    [name \in {"read_file", "run_command", "analyze_error"} |->
        CASE name = "read_file" -> {"filepath", "code_agent", "workspace"}
          [] name = "run_command" -> {"command", "workspace", "timeout"}
          [] name = "analyze_error" ->
                 {"error_message", "tool_name", "context", "tool_args"}]
RequiredParams ==
    [name \in DOMAIN HandlerParams |-> HandlerParams[name] \ {"timeout", "tool_args"}]

\* self.code_agent and self.workspace of the agent
AmbientContext == [code_agent |-> "self.code_agent", workspace |-> "self.workspace"]

\* get_all_tools: functools.partial(func, **kwargs), kwargs holding the
\* context the signature of func names; the keywords of each partial
get_all_tools(code_agent, workspace) ==
    [name \in DOMAIN HandlerParams |->
        [k \in {"code_agent", "workspace"} \cap HandlerParams[name] |->
            IF k = "code_agent" THEN code_agent ELSE workspace]]

\* partial.__call__(**tool_args): {**self.keywords, **tool_args}
PartialCall(keywords, tool_args) ==
    [k \in DOMAIN keywords \cup DOMAIN tool_args |->
        IF k \in DOMAIN tool_args THEN tool_args[k] ELSE keywords[k]]

\* func(**kwargs): TypeError for a keyword that is no parameter and for a
\* required parameter left out
Accepts(name, kwargs) ==
    /\ DOMAIN kwargs \subseteq HandlerParams[name]
    /\ RequiredParams[name] \subseteq DOMAIN kwargs

\* the argument bags of the LLM: any of these keys, each with one of two
\* values
BagKeys ==
    {"filepath", "command", "error_message", "tool_name", "context",
     "workspace", "code_agent"}
BagValues == {"v", "w"}
ArgumentBags == UNION { [K -> BagValues] : K \in SUBSET BagKeys }

\* self.tools_registry[tool_name](**tool_args) inside the try / except of the
\* dispatcher; dispatch_log keeps what the handler received
CallBound(name, tool_args) ==
    /\ dispatch_log = <<>>
    /\ LET bound == get_all_tools(AmbientContext.code_agent, AmbientContext.workspace)
           kwargs == PartialCall(bound[name], tool_args)
       IN  dispatch_log' =
               <<[name |-> name, arguments |-> tool_args,
                  outcome |-> IF Accepts(name, kwargs) THEN "called" ELSE "error",
                  received |-> kwargs]>>
    /\ UNCHANGED <<configVars, argVars, sessionVars, gitVars, fileVars, shellVars,
                   pc, messages, iteration, previous_tool_calls, tool_calls, idx,
                   last_tool_calls_signature, repeated_call_count, blocking_count,
                   force_complex_model, actions_taken, execution_result, result,
                   raised, llm_log>>

InitAmbient == IdleAgent /\ InitFiles

NextAmbient ==
    \E name \in DOMAIN HandlerParams, tool_args \in ArgumentBags :
        CallBound(name, tool_args)

SpecAmbient == InitAmbient /\ [][NextAmbient]_vars

\* the handler of the entry ran
HandlerRan(e) == e.outcome = "called"

\* C36: a handler that takes workspace or code_agent receives the agent's own
\* workspace and editor, whatever the argument bag of the model holds.
C36_AmbientContextNotReplaced ==
    \A i \in DOMAIN dispatch_log :
        LET e == dispatch_log[i]
        IN  HandlerRan(e) =>
                \A k \in DOMAIN AmbientContext \cap HandlerParams[e.name] :
                    e.received[k] = AmbientContext[k]

\* C36, for the bags that hold neither key
C36_AmbientContextInjected ==
    \A i \in DOMAIN dispatch_log :
        LET e == dispatch_log[i]
        IN  (HandlerRan(e) /\ DOMAIN e.arguments \cap DOMAIN AmbientContext = {}) =>
                \A k \in DOMAIN AmbientContext \cap HandlerParams[e.name] :
                    e.received[k] = AmbientContext[k]

\* ------------------------------------------------------------------------
\* ensure_lines on one path, the file absent or holding any short text
\* ------------------------------------------------------------------------
\* the inputs: any short text, and two lines given in either order
EnsureInputs ==
    StringsUpTo(WriteAlphabet, MaxLen)
        \cup {<<"a", NL, "a", "a">>, <<"a", "a", NL, "a">>}

InitEnsure == InitWrite

\* calls in any order, while the file stays short
NextEnsure ==
    /\ Exists(WritePath) => Len(fs[WritePath]) <= MaxLen + 2
    /\ \E lines_to_ensure \in EnsureInputs : EnsureLines(WritePath, lines_to_ensure)

SpecEnsure == InitEnsure /\ [][NextEnsure]_vars

\* the step is a call of ensure_lines that repeats the call before it
RepeatsEnsure ==
    /\ file_op.tool = "ensure_lines"
    /\ file_op'.tool = "ensure_lines"
    /\ file_op'.path = file_op.path
    /\ file_op'.content = file_op.content

\* C37: a call of ensure_lines leaves a file whose set of non-empty trimmed
\* lines is the union of that set before the call and the set of the input;
\* what the file held before is a prefix of what it holds after; a call that
\* repeats the call before it leaves the file as it is and makes no backup,
\* also when the first of the two created the file.
C37_EnsureLinesIsIdempotentUnion ==
    [][ /\ file_op'.tool = "ensure_lines" =>
               /\ LineSet(StrippedLines(fs'[file_op'.path]))
                      = LineSet(StrippedLines(file_op'.before))
                            \cup LineSet(StrippedLines(file_op'.content))
               /\ StartsWith(fs'[file_op'.path], file_op'.before)
        /\ RepeatsEnsure =>
               /\ fs' = fs
               /\ backups' = backups
               /\ file_op'.made = {}
      ]_vars

\* a call that created the file with two lines was repeated
C37_Witness ==
    /\ file_op.tool = "ensure_lines"
    /\ file_op.result = "present"
    /\ file_op.before = file_op.content
    /\ Len(StrippedLines(file_op.content)) = 2
    /\ backups = [n \in {} |-> <<>>]

\* ------------------------------------------------------------------------
\* The registration of tools, from the empty tables
\* ------------------------------------------------------------------------
\* the tables when tool_decorator has been imported and no tool module yet
InitRegistry ==
    /\ TOOL_REGISTRY = [n \in {} |-> Function(n, "def")]
    /\ TOOL_SCHEMAS = <<>>
    /\ TOOL_COMPLEXITY = [n \in {} |-> "simple"]
    /\ AgentFields({DefaultProviderConfig})
    /\ ~use_multi_model
    /\ self_max_iterations = MIN_ITERATIONS
    /\ tool_overrides = CHOOSE t \in OverrideTables : TRUE
    /\ repo = BaseRepo(FALSE, {})
    /\ git_log = <<>>
    /\ InitFiles

\* the functions that get decorated: three names, two functions of each name
DecoratedFunctions ==
    { Function(name, body) : name \in {"read_file", "write_file", "analyze_error"},
                             body \in {"def", "other def"} }

\* one @tool(...) applied to a function
Register(func, description, complexity) ==
    /\ Len(TOOL_SCHEMAS) < MaxRegistrations
    /\ decorator(func, description, complexity)
    /\ UNCHANGED <<use_multi_model, self_max_iterations, tool_overrides,
                   model_provider_config, model_clients,
                   argVars, loopVars, sessionVars, gitVars, fileVars, shellVars>>

NextRegistry ==
    \E func \in DecoratedFunctions, complexity \in {"simple", "complex"} :
        Register(func, "description", complexity)

SpecRegistry == InitRegistry /\ [][NextRegistry]_vars

\* the names of the schema list
SchemaNames == { TOOL_SCHEMAS[i].name : i \in DOMAIN TOOL_SCHEMAS }

\* the entries of the schema list with the name
SchemasOf(name) == { i \in DOMAIN TOOL_SCHEMAS : TOOL_SCHEMAS[i].name = name }

\* C38: the names are unique and the three tables parallel: the keys of
\* TOOL_REGISTRY, the keys of TOOL_COMPLEXITY and the names of TOOL_SCHEMAS
\* are one set, and TOOL_SCHEMAS has exactly one entry per name (a second
\* registration of a name is refused).
C38_NamesUniqueTablesParallel ==
    /\ DOMAIN TOOL_REGISTRY = DOMAIN TOOL_COMPLEXITY
    /\ DOMAIN TOOL_REGISTRY = SchemaNames
    /\ \A name \in DOMAIN TOOL_REGISTRY : Cardinality(SchemasOf(name)) = 1

\* C38, for the key sets alone
C38_TablesSameNames ==
    /\ DOMAIN TOOL_REGISTRY = DOMAIN TOOL_COMPLEXITY
    /\ DOMAIN TOOL_REGISTRY = SchemaNames

\* ------------------------------------------------------------------------
\* stop_background_process on one PID file, absent or holding any short text
\* ------------------------------------------------------------------------
PidPath == <<"server.pid">>
PidAlphabet == {"1", "2", "x", " ", NL, "U+00B2"}
PidTexts == StringsUpTo(PidAlphabet, MaxLen)

InitStop ==
    /\ IdleAgent
    /\ fs \in {[p \in {} |-> <<>>]} \cup [{PidPath} -> PidTexts]
    /\ backups = [n \in {} |-> <<>>]
    /\ clock = 0
    /\ file_op = NoFileOp
    /\ shell_op = NoShellOp

\* one call, the process answering in any way
NextStop ==
    /\ shell_op.tool = "none"
    /\ \E env \in [1..4 -> KillOutcomes] : StopBackgroundProcess(PidPath, env)

SpecStop == InitStop /\ [][NextStop]_vars

\* the positions of the calls of os.kill that sent sig
SentAt(sig) == { i \in DOMAIN shell_op.signals : shell_op.signals[i].sig = sig }

\* the content of the PID file is a decimal number
IsNumber(pid) == pid # <<>> /\ \A i \in DOMAIN pid : pid[i] \in {"1", "2"}

\* C39: SIGTERM is the first termination signal; SIGKILL is sent only after a
\* SIGTERM that was delivered and a probe after it that found the process
\* alive; when the tool reports the process stopped or gone the PID file is
\* removed; when the PID file is missing, does not hold a number, or the
\* process may not be accessed, no termination signal is sent and a PID file
\* that exists stays.
C39_GracefulThenKill ==
    shell_op.tool = "stop_background_process" =>
        LET sent == shell_op.signals
        IN  /\ \A k \in SentAt("SIGKILL") :
                   /\ k = 4
                   /\ sent[2] = Kill("SIGTERM", "ok")
                   /\ sent[3] = Kill("0", "ok")
            /\ \A t \in SentAt("SIGTERM") : t = 2 /\ sent[1] = Kill("0", "ok")
            /\ shell_op.result \in {"stopped", "already_finished", "gone"} =>
                   ~Exists(shell_op.command)
            /\ (\/ ~shell_op.existed
                \/ ~IsNumber(shell_op.pid)
                \/ (sent # <<>> /\ sent[1] = Kill("0", "PermissionError"))) =>
                   /\ SentAt("SIGTERM") = {}
                   /\ SentAt("SIGKILL") = {}
                   /\ shell_op.existed =>
                          Exists(shell_op.command)
                              /\ shell_op.result \notin {"stopped", "already_finished", "gone"}

\* a process that survived SIGTERM was killed and its PID file removed
C39_Witness ==
    /\ shell_op.tool = "stop_background_process"
    /\ shell_op.result = "stopped"
    /\ SentAt("SIGKILL") = {4}
    /\ shell_op.existed
    /\ ~Exists(shell_op.command)

\* ------------------------------------------------------------------------
\* One call of a git tool on a repository in any state
\* ------------------------------------------------------------------------
\* the repositories a call may find: HEAD on any branch that exists, the
\* working tree clean or not, the stash empty or not; and no repository
RefusalRepos ==
    {NoRepo}
        \cup { [BaseRepo(dirty, branches) EXCEPT !.head = head, !.stashes = stashes] :
                   dirty \in BOOLEAN, branches \in SUBSET {OldSessionBranch, NewSessionBranch},
                   head \in BranchNames, stashes \in 0..MaxStashes }

InitRefusal ==
    /\ InitAgent
    /\ ~use_multi_model
    /\ self_max_iterations = MIN_ITERATIONS
    /\ tool_overrides = CHOOSE t \in OverrideTables : TRUE
    /\ repo \in { r \in RefusalRepos : r.is_repo => r.head \in r.branches }
    /\ git_log = <<>>
    /\ InitFiles

\* a git tool returned; git_log keeps the call, the repository it found and
\* the one it left
GitCalled(op, after) ==
    /\ git_log = <<>>
    /\ repo' = after
    /\ git_log' = <<GitEntry(op, repo, after)>>
    /\ UNCHANGED <<agentVars, shellVars, fileVars>>

NextRefusal ==
    \/ \E branch_name \in {OldSessionBranch, NewSessionBranch} :
           GitCalled(<<"git_session_start", branch_name>>,
                     git_session_start(repo, branch_name))
    \/ \E name \in BranchNames, create_if_missing \in BOOLEAN :
           GitCalled(<<"git_branch_switch", name, create_if_missing>>,
                     git_branch_switch(repo, name, create_if_missing))
    \/ GitCalled(<<"git_stash_save">>, git_stash_save(repo))

SpecRefusal == InitRefusal /\ [][NextRefusal]_vars

\* C40: git_session_start and git_branch_switch called on a repository with
\* uncommitted changes, and git_stash_save called on a clean one, leave the
\* repository as it was: no branch created, HEAD where it was, no stash entry.
C40_RefusalsLeaveRepository ==
    \A i \in DOMAIN git_log :
        LET e == git_log[i]
            tool == e.op[1]
        IN  /\ (tool \in {"git_session_start", "git_branch_switch"}
                    /\ e.before.is_repo /\ e.before.dirty) =>
                   e.after = e.before
            /\ (tool = "git_stash_save" /\ e.before.is_repo /\ ~e.before.dirty) =>
                   e.after = e.before

\* git_branch_switch was asked to create a branch that did not exist, on a
\* repository with uncommitted changes, and left it as it was
C40_Witness ==
    /\ git_log # <<>>
    /\ git_log[1].op = <<"git_branch_switch", NewSessionBranch, TRUE>>
    /\ git_log[1].before.dirty
    /\ NewSessionBranch \notin git_log[1].before.branches
    /\ repo = git_log[1].before

====
